---- MODULE Spec2Model ----
(***************************************************************************)
(* SeedCore torrent engine: the piece manager (piece/mod.rs), the piece    *)
(* selector (piece/strategy.rs), the peer manager with its per-session     *)
(* handler tasks (peer/manager.rs) and the parts of the supervisor that    *)
(* drive it (engine/mod.rs).                                               *)
(*                                                                         *)
(* Abstractions: a bitfield is the set of piece indices whose bit is set;  *)
(* the content of a block is one of "zero" (the freshly allocated buffer), *)
(* "good" (the original bytes) or "bad" (anything else); SHA-1 is an       *)
(* injective tag on the content vector.  Every await of the source at      *)
(* which another task can observe shared state is a separate step.         *)
(***************************************************************************)
EXTENDS Integers, Sequences, FiniteSets, TLC

\* ---------------------------------------------------------------- bounds
NumPieces == 2
BlocksPerPiece == 2
NumPeers == 2
MaxPeerMsgs == 4
MaxSwarmMsgs == 3
MaxQueue == 3
\* id bytes the remote peer may put in a frame: 0 .. MaxMessageId
MaxMessageId == 9
\* Start commands an engine without a peer manager may handle
MaxStarts == 2
\* seconds the clock may advance
MaxClock == 2
\* announces an engine may make
MaxAnnounces == 2
\* URLs in one tier of an announce-list
MaxTierLen == 2
\* parses of one .torrent file
MaxParses == 2
\* files of a torrent
MaxFiles == 3
\* bytes in a file
MaxFileLen == 2

\* ------------------------------------------------------ program constants
BLOCK_SIZE == 16384
MAX_PENDING_REQUESTS == 5
NUM_UNCHOKED == 4

Pieces == 0 .. (NumPieces - 1)
Addrs == 1 .. NumPeers

Min(a, b) == IF a < b THEN a ELSE b

\* ------------------------------------------------------------- sequences
RECURSIVE SeqOfSet(_)
SeqOfSet(S) ==
    IF S = {} THEN <<>>
    ELSE LET x == CHOOSE y \in S : \A z \in S : y <= z
         IN <<x>> \o SeqOfSet(S \ {x})

Range(s) == { s[i] : i \in 1 .. Len(s) }

Take(s, n) == IF n >= Len(s) THEN s ELSE IF n <= 0 THEN <<>> ELSE SubSeq(s, 1, n)

\* ------------------------------------------------------------ piece/mod.rs
BlockInfo(piece_index, offset, length) ==
    [piece_index |-> piece_index, offset |-> offset, length |-> length]

piece_len(m, piece_index) ==
    IF piece_index = m.num_pieces - 1 THEN m.last_piece_length ELSE m.piece_length

NumBlocks(len) == (len + BLOCK_SIZE - 1) \div BLOCK_SIZE

BlockOffsets(len) == { i * BLOCK_SIZE : i \in 0 .. (NumBlocks(len) - 1) }

get_blocks_for_piece(m, piece_index) ==
    LET len == piece_len(m, piece_index)
    IN [ i \in 1 .. NumBlocks(len) |->
           BlockInfo(piece_index, (i - 1) * BLOCK_SIZE,
                     Min(BLOCK_SIZE, len - (i - 1) * BLOCK_SIZE)) ]

AllBlocks(m) == UNION { Range(get_blocks_for_piece(m, p)) : p \in Pieces }

PieceState_new(len) ==
    [ data |-> [ o \in BlockOffsets(len) |-> "zero" ],
      downloaded_blocks |-> {},
      total_blocks |-> NumBlocks(len),
      len |-> len ]

PieceState_write_block(state, offset, length, content) ==
    IF offset + length <= state.len
    THEN [ state EXCEPT !.data = [ o \in DOMAIN state.data \cup {offset} |->
                                     IF o = offset THEN content ELSE state.data[o] ],
                        !.downloaded_blocks = @ \cup {offset} ]
    ELSE state

PieceState_is_complete(state) ==
    Cardinality(state.downloaded_blocks) = state.total_blocks

PieceState_missing_blocks(state) ==
    SeqOfSet({ o \in { i * BLOCK_SIZE : i \in 0 .. (state.total_blocks - 1) } :
                 o \notin state.downloaded_blocks })

Sha1(data) == <<"sha1", data>>

\* the bytes of a piece of the given length in the original file
OriginalData(len) == [ o \in BlockOffsets(len) |-> "good" ]

\* ------------------------------------------------------ piece/bitfield.rs
\* faulty variant of pieces_to_request: the pieces we already have are not filtered out
pieces_to_request_all(ours, peer_bitfield) ==
    SeqOfSet({ i \in Pieces : i \in peer_bitfield })

\* faulty variant of pieces_to_request: what the peer has is not looked at
pieces_to_request_any(ours, peer_bitfield) ==
    SeqOfSet({ i \in Pieces : i \notin ours })

pieces_to_request(ours, peer_bitfield) ==
    SeqOfSet({ i \in Pieces : i \notin ours /\ i \in peer_bitfield })

\* ------------------------------------------------------ piece/strategy.rs
Avail(piece_availability, piece_idx) == piece_availability[piece_idx]

\* faulty variant of select_rarest: the first candidate, whatever its availability
select_rarest_first(piece_availability, candidates) == { candidates[1] }

\* first candidate whose availability is minimal (Iterator::min_by_key)
select_rarest(piece_availability, candidates) ==
    { candidates[i] : i \in { j \in 1 .. Len(candidates) :
        /\ \A k \in 1 .. Len(candidates) :
             Avail(piece_availability, candidates[j]) <= Avail(piece_availability, candidates[k])
        /\ \A k \in 1 .. (j - 1) :
             Avail(piece_availability, candidates[k]) > Avail(piece_availability, candidates[j]) } }

select_sequential(candidates) ==
    { c \in Range(candidates) : \A d \in Range(candidates) : c <= d }

select_random(candidates) == Range(candidates)

select_endgame(candidates) == { candidates[1] }

\* faulty variant of select_piece: the pieces we already have stay candidates
select_piece_owned(strategy, piece_availability, ours, peer_bitfield, pending_pieces) ==
    LET candidates == SeqOfSet({ c \in peer_bitfield : c \notin pending_pieces })
    IN IF candidates = <<>> THEN {} ELSE { candidates[1] }

\* The set of pieces select_piece may return; the empty set stands for None.
select_piece(strategy, piece_availability, ours, peer_bitfield, pending_pieces) ==
    LET all == pieces_to_request(ours, peer_bitfield)
        candidates == SeqOfSet({ c \in Range(all) : c \notin pending_pieces })
    IN IF candidates = <<>> THEN {}
       ELSE CASE strategy = "RarestFirst" -> select_rarest(piece_availability, candidates)
              [] strategy = "Sequential"  -> select_sequential(candidates)
              [] strategy = "Random"      -> select_random(candidates)
              [] strategy = "Endgame"     -> select_endgame(candidates)

update_peer_availability(piece_availability, peer_bitfield, increment) ==
    [ p \in Pieces |->
        IF p \in peer_bitfield
        THEN IF increment THEN piece_availability[p] + 1
             ELSE IF piece_availability[p] > 0 THEN piece_availability[p] - 1
             ELSE piece_availability[p]
        ELSE piece_availability[p] ]

mark_piece_available(piece_availability, piece_idx) ==
    [ piece_availability EXCEPT ![piece_idx] = @ + 1 ]

\* ------------------------------------------------- PieceManager (piece/mod.rs)
MapPut(f, k, v) == [ x \in DOMAIN f \cup {k} |-> IF x = k THEN v ELSE f[x] ]

MapRemove(f, k) == [ x \in DOMAIN f \ {k} |-> f[x] ]

PieceManager_new(num_pieces, piece_length, last_piece_length, strategy) ==
    [ our_bitfield |-> {},
      strategy |-> strategy,
      piece_hashes |-> [ p \in 0 .. (num_pieces - 1) |->
                           Sha1(OriginalData(IF p = num_pieces - 1
                                             THEN last_piece_length ELSE piece_length)) ],
      piece_length |-> piece_length,
      last_piece_length |-> last_piece_length,
      num_pieces |-> num_pieces,
      piece_availability |-> [ p \in 0 .. (num_pieces - 1) |-> 0 ],
      in_progress |-> [ p \in {} |-> 0 ],
      verified_pieces |-> {},
      peer_requests |-> [ a \in {} |-> {} ] ]

add_peer(m, peer_id, peer_bitfield) ==
    [ m EXCEPT !.piece_availability = update_peer_availability(@, peer_bitfield, TRUE),
               !.peer_requests = MapPut(@, peer_id, {}) ]

peer_has_piece(m, piece_index) ==
    [ m EXCEPT !.piece_availability = mark_piece_available(@, piece_index) ]

has_piece(m, piece_index) == piece_index \in m.our_bitfield

is_complete(m) == Cardinality(m.our_bitfield) = m.num_pieces

in_progress_pieces(m) == DOMAIN m.in_progress

\* the pieces select_next_piece may pick for this peer (empty: it returns None)
select_next_choices(m, peer_bitfield) ==
    select_piece(m.strategy, m.piece_availability, m.our_bitfield, peer_bitfield,
                 DOMAIN m.in_progress)

\* faulty variant of select_next_piece: the bit is set as soon as the piece is picked
select_next_piece_eager(m, peer_id, piece_index) ==
    [ m EXCEPT !.in_progress =
                 IF piece_index \in DOMAIN @ THEN @
                 ELSE MapPut(@, piece_index, PieceState_new(piece_len(m, piece_index))),
               !.our_bitfield = @ \cup {piece_index},
               !.peer_requests =
                 IF peer_id \in DOMAIN @
                 THEN [ @ EXCEPT ![peer_id] = @ \cup {piece_index} ]
                 ELSE @ ]

\* the piece manager after select_next_piece has picked piece_index
select_next_piece(m, peer_id, piece_index) ==
    [ m EXCEPT !.in_progress =
                 IF piece_index \in DOMAIN @ THEN @
                 ELSE MapPut(@, piece_index, PieceState_new(piece_len(m, piece_index))),
               !.peer_requests =
                 IF peer_id \in DOMAIN @
                 THEN [ @ EXCEPT ![peer_id] = @ \cup {piece_index} ]
                 ELSE @ ]

get_missing_blocks(m, piece_index) ==
    LET offs == PieceState_missing_blocks(m.in_progress[piece_index])
    IN [ i \in 1 .. Len(offs) |->
           BlockInfo(piece_index, offs[i],
                     Min(BLOCK_SIZE, piece_len(m, piece_index) - offs[i])) ]

\* result: "complete", "more", or "err" (length mismatch / piece not in progress)
write_block(m, block, data_len, content) ==
    IF block.length # data_len THEN [ pm |-> m, result |-> "err" ]
    ELSE IF block.piece_index \notin DOMAIN m.in_progress THEN [ pm |-> m, result |-> "err" ]
    ELSE LET st == PieceState_write_block(m.in_progress[block.piece_index],
                                          block.offset, data_len, content)
         IN [ pm |-> [ m EXCEPT !.in_progress[block.piece_index] = st ],
              result |-> IF PieceState_is_complete(st) THEN "complete" ELSE "more" ]

\* faulty variant of verify_piece: a complete buffer is accepted without comparing
\* its digest
verify_piece_nocheck(m, piece_index) ==
    IF piece_index \notin DOMAIN m.in_progress
    THEN [ pm |-> m, ok |-> FALSE, hashed |-> FALSE ]
    ELSE IF ~ PieceState_is_complete(m.in_progress[piece_index])
    THEN [ pm |-> m, ok |-> FALSE, hashed |-> FALSE ]
    ELSE [ pm |-> [ m EXCEPT !.in_progress = MapRemove(@, piece_index),
                             !.our_bitfield = @ \cup {piece_index},
                             !.verified_pieces = @ \cup {piece_index} ],
           ok |-> TRUE, hashed |-> FALSE ]

\* faulty variant of verify_piece: a verified piece keeps its buffer in the
\* in-progress map
verify_piece_keep(m, piece_index) ==
    IF piece_index \notin DOMAIN m.in_progress
    THEN [ pm |-> m, ok |-> FALSE, hashed |-> FALSE ]
    ELSE IF ~ PieceState_is_complete(m.in_progress[piece_index])
    THEN [ pm |-> m, ok |-> FALSE, hashed |-> FALSE ]
    ELSE IF Sha1(m.in_progress[piece_index].data) # m.piece_hashes[piece_index]
    THEN [ pm |-> [ m EXCEPT !.in_progress[piece_index] =
                               PieceState_new(m.in_progress[piece_index].len) ],
           ok |-> FALSE, hashed |-> TRUE ]
    ELSE [ pm |-> [ m EXCEPT !.our_bitfield = @ \cup {piece_index},
                             !.verified_pieces = @ \cup {piece_index} ],
           ok |-> TRUE, hashed |-> TRUE ]

\* result: ok (Ok(data) / Err), hashed (a digest was computed)
verify_piece(m, piece_index) ==
    IF piece_index \notin DOMAIN m.in_progress
    THEN [ pm |-> m, ok |-> FALSE, hashed |-> FALSE ]
    ELSE LET state == m.in_progress[piece_index]
         IN IF ~ PieceState_is_complete(state)
            THEN [ pm |-> m, ok |-> FALSE, hashed |-> FALSE ]
            ELSE IF Sha1(state.data) # m.piece_hashes[piece_index]
            THEN [ pm |-> [ m EXCEPT !.in_progress[piece_index] = PieceState_new(state.len) ],
                   ok |-> FALSE, hashed |-> TRUE ]
            ELSE [ pm |-> [ m EXCEPT !.in_progress = MapRemove(@, piece_index),
                                     !.our_bitfield = @ \cup {piece_index},
                                     !.verified_pieces = @ \cup {piece_index},
                                     !.peer_requests =
                                        [ a \in DOMAIN @ |-> @[a] \ {piece_index} ] ],
                   ok |-> TRUE, hashed |-> TRUE ]

cancel_piece(m, piece_index) ==
    [ m EXCEPT !.in_progress = MapRemove(@, piece_index) ]

\* -------------------------------------------------------------- bencode.rs
\* A byte is a one-character string, data a sequence of bytes.
Digits == { "0", "1", "2", "3", "4", "5", "6", "7", "8", "9" }

DigitValue(c) ==
    CASE c = "0" -> 0 [] c = "1" -> 1 [] c = "2" -> 2 [] c = "3" -> 3 [] c = "4" -> 4
      [] c = "5" -> 5 [] c = "6" -> 6 [] c = "7" -> 7 [] c = "8" -> 8 [] c = "9" -> 9

Integer(n) == [ type |-> "Integer", n |-> n ]
ByteString(bytes) == [ type |-> "ByteString", bytes |-> bytes ]
List(list) == [ type |-> "List", list |-> list ]
Dictionary(dict) == [ type |-> "Dictionary", dict |-> dict ]

BencodeError == [ ok |-> FALSE ]
Parsed(value, pos) == [ ok |-> TRUE, value |-> value, pos |-> pos ]

\* the scan `while self.pos < self.data.len()` for a byte: where it stops
RECURSIVE scan_for(_, _, _)
scan_for(data, pos, c) ==
    IF pos > Len(data) \/ data[pos] = c THEN pos ELSE scan_for(data, pos + 1, c)

RECURSIVE decimal(_)
decimal(text) ==
    IF text = << >> THEN 0
    ELSE 10 * decimal(SubSeq(text, 1, Len(text) - 1)) + DigitValue(text[Len(text)])

is_decimal(text) == text # << >> /\ \A i \in 1 .. Len(text) : text[i] \in Digits

\* str::parse::<i64>: an optional sign, then digits; leading zeros are accepted
parse_i64(text) ==
    IF is_decimal(text) THEN << decimal(text) >>
    ELSE IF text # << >> /\ text[1] \in { "+", "-" } /\ is_decimal(Tail(text))
    THEN << IF text[1] = "-" THEN 0 - decimal(Tail(text)) ELSE decimal(Tail(text)) >>
    ELSE << >>

\* str::parse::<usize>
parse_usize(text) ==
    IF is_decimal(text) THEN << decimal(text) >>
    ELSE IF text # << >> /\ text[1] = "+" /\ is_decimal(Tail(text))
    THEN << decimal(Tail(text)) >>
    ELSE << >>

parse_integer(data, pos) ==
    LET start == pos + 1
        end == scan_for(data, start, "e")
        num == parse_i64(SubSeq(data, start, end - 1))
    IN IF end > Len(data) \/ num = << >> THEN BencodeError
       ELSE Parsed(Integer(num[1]), end + 1)

parse_byte_string(data, pos) ==
    LET colon == scan_for(data, pos, ":")
        len == parse_usize(SubSeq(data, pos, colon - 1))
    IN IF colon > Len(data) \/ len = << >> THEN BencodeError
       ELSE IF colon + len[1] > Len(data) THEN BencodeError
       ELSE Parsed(ByteString(SubSeq(data, colon + 1, colon + len[1])), colon + len[1] + 1)

RECURSIVE parse_value(_, _)
RECURSIVE parse_list_items(_, _, _)
RECURSIVE parse_dictionary_items(_, _, _)

\* parse_list: the loop and the closing `e`
parse_list_items(data, pos, list) ==
    IF pos <= Len(data) /\ data[pos] # "e"
    THEN LET item == parse_value(data, pos)
         IN IF item.ok THEN parse_list_items(data, item.pos, Append(list, item.value))
            ELSE BencodeError
    ELSE IF pos > Len(data) THEN BencodeError
    ELSE Parsed(List(list), pos + 1)

\* parse_dictionary: the loop and the closing `e`; a repeated key replaces the
\* earlier value (HashMap::insert)
parse_dictionary_items(data, pos, dict) ==
    IF pos <= Len(data) /\ data[pos] # "e"
    THEN LET key == parse_value(data, pos)
         IN IF ~ key.ok \/ key.value.type # "ByteString" THEN BencodeError
            ELSE LET value == parse_value(data, key.pos)
                 IN IF value.ok
                    THEN parse_dictionary_items(data, value.pos,
                                                MapPut(dict, key.value.bytes, value.value))
                    ELSE BencodeError
    ELSE IF pos > Len(data) THEN BencodeError
    ELSE Parsed(Dictionary(dict), pos + 1)

parse_list(data, pos) == parse_list_items(data, pos + 1, << >>)

parse_dictionary(data, pos) == parse_dictionary_items(data, pos + 1, << >>)

parse_value(data, pos) ==
    IF pos > Len(data) THEN BencodeError
    ELSE CASE data[pos] = "i" -> parse_integer(data, pos)
           [] data[pos] = "l" -> parse_list(data, pos)
           [] data[pos] = "d" -> parse_dictionary(data, pos)
           [] data[pos] \in Digits -> parse_byte_string(data, pos)
           [] OTHER -> BencodeError

\* BencodeValue::parse
BencodeValue_parse(data) == parse_value(data, 1)

\* HashMap::get
dict_get(dict, key) == IF key \in DOMAIN dict THEN << dict[key] >> ELSE << >>

\* ----------------------------------------------------------- torrent/mod.rs
RECURSIVE OrdersOf(_)
OrdersOf(S) ==
    IF S = {} THEN { << >> }
    ELSE UNION { { << x >> \o q : q \in OrdersOf(S \ {x}) } : x \in S }

\* format!("{:?}", value): the derived Debug text of a BencodeValue, kept as the
\* nesting of its parts; a Dictionary is written in the iteration order of its
\* HashMap, which is any order of its keys
RECURSIVE DebugTexts(_)
RECURSIVE DebugItems(_)
RECURSIVE DebugEntries(_, _)

DebugItems(list) ==
    IF list = << >> THEN { << >> }
    ELSE { << d >> \o rest : d \in DebugTexts(Head(list)), rest \in DebugItems(Tail(list)) }

DebugEntries(dict, order) ==
    IF order = << >> THEN { << >> }
    ELSE { << << Head(order), d >> >> \o rest :
             d \in DebugTexts(dict[Head(order)]), rest \in DebugEntries(dict, Tail(order)) }

DebugTexts(value) ==
    CASE value.type = "Integer" -> { << "Integer", value.n >> }
      [] value.type = "ByteString" -> { << "ByteString", value.bytes >> }
      [] value.type = "List" -> { << "List", items >> : items \in DebugItems(value.list) }
      [] value.type = "Dictionary" ->
           UNION { { << "Dictionary", entries >> : entries \in DebugEntries(value.dict, order) }
                   : order \in OrdersOf(DOMAIN value.dict) }

B_announce == << "a", "n", "n", "o", "u", "n", "c", "e" >>
B_info == << "i", "n", "f", "o" >>
B_piece_length == << "p", "i", "e", "c", "e", " ", "l", "e", "n", "g", "t", "h" >>
B_piece_length_underscore == << "p", "i", "e", "c", "e", "_", "l", "e", "n", "g", "t", "h" >>
B_pieces == << "p", "i", "e", "c", "e", "s" >>
B_name == << "n", "a", "m", "e" >>
B_length == << "l", "e", "n", "g", "t", "h" >>
B_files == << "f", "i", "l", "e", "s" >>

has_type(field, type) == field # << >> /\ field[1].type = type

B_path == << "p", "a", "t", "h" >>

\* TorrentInfo::parse, the loop over the `files` list: no entry is rejected
files_ok(files_list) ==
    \A i \in 1 .. Len(files_list) :
       /\ files_list[i].type = "Dictionary"
       /\ has_type(dict_get(files_list[i].dict, B_length), "Integer")
       /\ has_type(dict_get(files_list[i].dict, B_path), "List")
       /\ \E j \in 1 .. Len(dict_get(files_list[i].dict, B_path)[1].list) :
             dict_get(files_list[i].dict, B_path)[1].list[j].type = "ByteString"

\* TorrentInfo::parse returns Ok (every byte of the model is ASCII, so as_str
\* succeeds on every ByteString)
TorrentInfo_parse_ok(value) ==
    /\ value.type = "Dictionary"
    /\ \/ has_type(dict_get(value.dict, B_piece_length), "Integer")
       \/ /\ dict_get(value.dict, B_piece_length) = << >>
          /\ has_type(dict_get(value.dict, B_piece_length_underscore), "Integer")
    /\ has_type(dict_get(value.dict, B_pieces), "ByteString")
    /\ Len(dict_get(value.dict, B_pieces)[1].bytes) % 20 = 0
    /\ has_type(dict_get(value.dict, B_name), "ByteString")
    /\ IF dict_get(value.dict, B_length) # << >>
       THEN has_type(dict_get(value.dict, B_length), "Integer")
       ELSE /\ has_type(dict_get(value.dict, B_files), "List")
            /\ files_ok(dict_get(value.dict, B_files)[1].list)

\* Metainfo::calculate_info_hash: the digests it may return, none for Err
calculate_info_hash(data) ==
    LET root == BencodeValue_parse(data)
    IN IF ~ root.ok \/ root.value.type # "Dictionary" THEN {}
       ELSE LET info_value == dict_get(root.value.dict, B_info)
            IN IF info_value = << >> THEN {}
               ELSE { Sha1(info_bytes) : info_bytes \in DebugTexts(info_value[1]) }

\* Metainfo::from_bytes returns Ok
from_bytes_ok(data) ==
    LET root == BencodeValue_parse(data)
    IN /\ root.ok
       /\ root.value.type = "Dictionary"
       /\ has_type(dict_get(root.value.dict, B_announce), "ByteString")
       /\ dict_get(root.value.dict, B_info) # << >>
       /\ calculate_info_hash(data) # {}
       /\ TorrentInfo_parse_ok(dict_get(root.value.dict, B_info)[1])

\* -------------------------------------------------------------- disk/mod.rs
Max(a, b) == IF a > b THEN a ELSE b

\* DiskManager::build_file_list: every file with its offset in the torrent
RECURSIVE build_file_list_from(_, _)
build_file_list_from(lengths, offset) ==
    IF lengths = << >> THEN << >>
    ELSE << [ length |-> Head(lengths), offset |-> offset ] >>
         \o build_file_list_from(Tail(lengths), offset + Head(lengths))

build_file_list(lengths) == build_file_list_from(lengths, 0)

\* faulty variant of file_chunk: the end is not limited to the file's length
file_chunk_unbounded(file_list, i, offset, end_offset) ==
    LET file_start == file_list[i].offset
        read_start == Max(0, offset - file_start)
        read_end == end_offset - file_start
    IN [ file |-> i, offset_in_file |-> read_start, bytes |-> read_end - read_start ]

\* get_files_for_range, loop body: the triple pushed for an overlapping file
file_chunk(file_list, i, offset, end_offset) ==
    LET file_start == file_list[i].offset
        read_start == Max(0, offset - file_start)
        read_end == Min(end_offset - file_start, file_list[i].length)
    IN [ file |-> i, offset_in_file |-> read_start, bytes |-> read_end - read_start ]

\* DiskManager::get_files_for_range
RECURSIVE get_files_from(_, _, _, _)
get_files_from(file_list, i, offset, end_offset) ==
    IF i > Len(file_list) THEN << >>
    ELSE LET file_start == file_list[i].offset
             file_end == file_list[i].offset + file_list[i].length
         IN ( IF file_start < end_offset /\ file_end > offset
              THEN << file_chunk(file_list, i, offset, end_offset) >> ELSE << >> )
            \o get_files_from(file_list, i + 1, offset, end_offset)

get_files_for_range(file_list, offset, size) ==
    get_files_from(file_list, 1, offset, offset + size)

\* ===================================================================== state
VARIABLES
    pm,             \* the shared PieceManager
    disk,           \* DiskManager: content on disk of every piece's byte range
    sessions,       \* PeerManager.sessions: addr -> PeerSession
    session_local,  \* handle_peer's local `session` while it is out of the table
    pc,             \* position of each session task in handle_peer
    msg,            \* handle_peer's local `message`
    rp_queue,       \* request_pieces: blocks still to be sent in its send loop
    can_request,    \* handle_peer's local `can_request` of the Piece branch
    piece_data,     \* bytes returned by verify_piece / read_piece, local to the task
    mgr_pc,         \* position of PeerManager::run
    mgr_iter,       \* sessions still to be visited by the manager's current loop
    mgr_arg,        \* piece index of the broadcast in progress
    paused,         \* PeerManager.paused
    command_rx,     \* the manager's command channel
    cancelled,      \* the cancellation token
    engine_state,   \* TorrentEngine.state
    engine_running, \* TorrentEngine::run has not returned
    peer_manager_tx,\* TorrentEngine.peer_manager_tx is Some
    peer_addresses, \* TorrentEngine.peer_addresses, as returned by the tracker
    peer_script,    \* what the remote peers do in this run: message kinds, how many
    conn,           \* TCP connection to each peer: "none", "open", "closed"
    budget,         \* messages the remote peer will still send
    peer_reqs,      \* REQUESTs the remote peer has received and not yet answered
    unknown_frames, \* history: frames with an unknown id received per session
    outstanding,    \* history: per session, how many REQUESTs for each block are
                    \* on the wire with no PIECE received for them yet
    sent_now,       \* messages written to sockets by the last step
    verify_ok,      \* history: successful verifications per piece
    verify_err,     \* history: pieces whose digest did not match at a verification
    disk_writes,    \* history: completed disk writes per piece
    rehashed,       \* history: pieces whose digest was computed while Verified
    mgr_stats,      \* PeerManager.stats.total_downloaded
    engine_stats,   \* TorrentEngine.stats.downloaded_bytes
    snapshot,       \* the TorrentSession row in the database: << >> or << row >>
    metainfo,       \* TorrentEngine.metainfo.info: total_size and piece_count
    effects,        \* history: what handle_start and the tracker timer have done
    first_starts,   \* history: Start commands handled without a peer manager
    completed_at,   \* TorrentEngine.completed_at: << >> or << timestamp >>
    now,            \* chrono::Utc::now().timestamp()
    announces,      \* history: the event of every AnnounceRequest made, in order
    announce_urls,  \* TorrentEngine.metainfo.announce and .announce_list
    tracker_up,     \* the tracker URLs whose announce answers Ok at present
    tracker_info,   \* TorrentEngine.tracker_info: a list of [url, status]
    last_round,     \* history: the URLs the last announce round tried, with the outcome
    optimistic,     \* history: the peer optimistic_unchoke chose last: << >> or << addr >>
    cancel_due,     \* history: the CANCELs owed and not written, as [from, to, block]: a
                    \* PIECE for the block was accepted from `from` in Endgame while the
                    \* block was pending on session `to`
    torrent_bytes,  \* the bytes of the .torrent file given to Metainfo::from_bytes
    info_hashes,    \* history: every Metainfo.info_hash a parse of these bytes returned
    files,          \* DiskManager.files: the length and the torrent offset of every file
    last_range,     \* history: the last get_files_for_range call, << >> or << call >>
    unrequested,    \* history: the PIECEs handle_peer dropped as unrequested, as [from, block, active]
    run_task,       \* the task start_torrent spawns for TorrentEngine::run
    engine_cmds,    \* TorrentEngine.command_rx: EngineCommands sent and not yet received
    calls,          \* the command-layer calls in progress, by kind
    engine_pc,      \* TorrentEngine::update_stats: "idle", "stats_locked", "await_stats"
    stats_rx,       \* the oneshot channel of GetStats: << >> or << reply >>
    removed         \* history: the addresses whose RemovePeer the manager has processed

vars == << pm, disk, sessions, session_local, pc, msg, rp_queue, can_request,
           piece_data, mgr_pc, mgr_iter, mgr_arg, paused, command_rx, cancelled,
           engine_state, engine_running, peer_manager_tx, peer_addresses, peer_script,
           conn, budget, peer_reqs, outstanding, unknown_frames, sent_now, verify_ok, verify_err,
           disk_writes, rehashed, mgr_stats, engine_stats, snapshot,
           metainfo, effects, first_starts, completed_at, now, announces,
           announce_urls, tracker_up, tracker_info, last_round, optimistic, cancel_due,
           torrent_bytes, info_hashes, files, last_range, unrequested,
           run_task, engine_cmds, calls, engine_pc, stats_rx, removed >>

fileVars == << files, last_range >>
cmdVars == << run_task, engine_cmds, calls >>
statsVars == << engine_pc, stats_rx >>
quietVars == << torrent_bytes, info_hashes, fileVars, unrequested, statsVars, removed >>
metaVars == << quietVars, cmdVars >>
pmVars == << pm, verify_ok, verify_err, rehashed >>
diskVars == << disk, disk_writes >>
tableVars == << sessions, session_local >>
localVars == << msg, rp_queue, can_request, piece_data >>
mgrVars == << mgr_pc, mgr_iter, mgr_arg, paused, command_rx, mgr_stats >>
announceVars == << announce_urls, tracker_up, tracker_info, last_round >>
trackerVars == << completed_at, now, announces, announceVars >>
engineVars == << engine_state, engine_running, peer_manager_tx, peer_addresses, cancelled,
                engine_stats, snapshot, metainfo, effects,
                first_starts, trackerVars >>
peerVars == << conn, budget, peer_reqs, outstanding, unknown_frames, peer_script >>

NoMsg == [ type |-> "None" ]
NoData == <<>>

\* PeerConnection::new and PeerSession::new
PeerSession_new ==
    [ peer_choking |-> TRUE, peer_interested |-> FALSE,
      am_choking |-> TRUE, am_interested |-> FALSE,
      pending_requests |-> {},           \* the keys of the map block -> request time
      timed_out |-> {},                  \* the keys older than REQUEST_TIMEOUT
      peer_bitfield |-> <<>>,            \* <<>> is None, <<bits>> is Some(bits)
      downloaded_bytes |-> 0 ]

\* a session exists for the address, in the table or taken out of it for a read
Live(a) == a \in DOMAIN sessions \/ a \in DOMAIN session_local

SessionOf(a) == IF a \in DOMAIN sessions THEN sessions[a] ELSE session_local[a]

\* PeerSession::get_timed_out_requests
get_timed_out_requests(s) == s.timed_out

\* faulty variant of request_was_pending: every block counts as requested
request_was_pending_any(s, block) == TRUE

\* PeerSession::remove_pending_request, its return value: the block was in the map
request_was_pending(s, block) == block \in s.pending_requests

\* PeerSession::remove_pending_request
remove_pending_request(s, block) ==
    [ s EXCEPT !.pending_requests = @ \ {block}, !.timed_out = @ \ {block} ]

\* PeerSession::add_pending_request: insert with the present time
add_pending_request(s, block) ==
    [ s EXCEPT !.pending_requests = @ \cup {block}, !.timed_out = @ \ {block} ]

PeerSession_can_request(s) ==
    ~ s.peer_choking /\ Cardinality(s.pending_requests) < MAX_PENDING_REQUESTS

\* DiskManager::allocate_files: files of the declared size, no content yet
Disk_allocated(m) == [ p \in 0 .. (m.num_pieces - 1) |-> [ o \in BlockOffsets(piece_len(m, p)) |-> "zero" ] ]

\* ----------------------------------------------------------------- locking
\* The session-table write lock is held across awaits in request_pieces and
\* handle_upload_request (session tasks) and in the manager's send loops.
HandlerHoldsTable(a) == pc[a] \in { "rp_send", "up_send" }

MgrHoldsTable == mgr_pc \in { "bh_send", "ka_send", "ch_send", "ou_send", "tick_pm" }

TableLockFree == ~ MgrHoldsTable /\ \A a \in Addrs : ~ HandlerHoldsTable(a)

\* request_pieces keeps the piece-manager write guard until it returns;
\* TorrentEngine::update_stats keeps a read guard until it returns
PmLockFree == ( \A a \in Addrs : pc[a] # "rp_send" ) /\ engine_pc = "idle"

\* a task is suspended in a socket read or write
HandlerInSocketIO(a) == pc[a] \in { "recv", "bf_send", "rp_send", "up_send" }

MgrInSocketIO == mgr_pc \in { "bh_send", "ka_send", "ch_send", "ou_send" }

\* the command-layer entry points that reach a started engine
CallKinds == { "pause", "remove", "shutdown" }

AllKinds == { "KeepAlive", "Choke", "Unchoke", "Interested", "NotInterested",
              "Have", "Bitfield", "Request", "Piece" }

\* TorrentInfo of a .torrent file: the sizes of its pieces add up to total_size
TorrentInfo(piece_count, piece_length, last_piece_length) ==
    [ piece_count |-> piece_count,
      total_size |-> IF piece_count = 0 THEN 0
                     ELSE (piece_count - 1) * piece_length + last_piece_length ]

\* a tracker URL: its scheme and the rest of it
Url(scheme, rest) == << scheme, rest >>

TrackerUrls == { Url("http", 1), Url("https", 2), Url("udp", 3) }

\* a descriptor with one HTTP tracker and no announce-list
PrimaryOnly == [ announce |-> Url("http", 1), announce_list |-> << >> ]

\* TorrentEngine::new for a descriptor and its tracker URLs, with the file the
\* descriptor is parsed from (<< >>: no file, a magnet link or a stored session)
InitLayer(task, lengths, data, info, urls, piece_length, last_piece_length, addresses, script) ==
    /\ run_task = task
    /\ removed = {}
    /\ engine_pc = "idle"
    /\ stats_rx = << >>
    /\ engine_cmds = << >>
    /\ calls = [ c \in CallKinds |-> "idle" ]
    /\ files = build_file_list(lengths)
    /\ last_range = << >>
    /\ unrequested = {}
    /\ torrent_bytes = data
    /\ info_hashes = {}
    /\ metainfo = info
    /\ announce_urls = urls
    /\ tracker_up = { Url("http", 1) }
    /\ tracker_info = << >>
    /\ last_round = << >>
    /\ effects = {}
    /\ first_starts = 0
    /\ completed_at = << >>
    /\ now = 0
    /\ optimistic = << >>
    /\ cancel_due = {}
    /\ announces = << >>
    /\ pm = PieceManager_new(info.piece_count, piece_length, last_piece_length, "RarestFirst")
    /\ disk = Disk_allocated(pm)
    /\ sessions = [ a \in {} |-> PeerSession_new ]
    /\ session_local = [ a \in {} |-> PeerSession_new ]
    /\ pc = [ a \in Addrs |-> "unspawned" ]
    /\ msg = [ a \in Addrs |-> NoMsg ]
    /\ rp_queue = [ a \in Addrs |-> <<>> ]
    /\ can_request = [ a \in Addrs |-> FALSE ]
    /\ piece_data = [ a \in Addrs |-> NoData ]
    /\ mgr_pc = "unspawned"
    /\ mgr_iter = <<>>
    /\ mgr_arg = 0
    /\ paused = FALSE
    /\ command_rx = <<>>
    /\ cancelled = FALSE
    /\ engine_state = "Stopped"
    /\ engine_running = TRUE
    /\ peer_manager_tx = FALSE
    /\ peer_addresses = addresses
    /\ peer_script = script
    /\ conn = [ a \in Addrs |-> "none" ]
    /\ budget = [ a \in Addrs |-> script.msgs ]
    /\ peer_reqs = [ a \in Addrs |-> {} ]
    /\ outstanding = [ a \in Addrs |-> << >> ]
    /\ unknown_frames = [ a \in Addrs |-> 0 ]
    /\ sent_now = {}
    /\ verify_ok = [ p \in Pieces |-> 0 ]
    /\ verify_err = {}
    /\ disk_writes = [ p \in Pieces |-> 0 ]
    /\ rehashed = {}
    /\ mgr_stats = 0
    /\ engine_stats = 0
    /\ snapshot = << >>

\* the same for an engine whose run loop is entered and commanded directly
InitDisk(lengths, data, info, urls, piece_length, last_piece_length, addresses, script) ==
    InitLayer("direct", lengths, data, info, urls, piece_length, last_piece_length,
              addresses, script)

\* the same for a single-file torrent (DiskManager::build_file_list: one file of
\* the total size)
InitLoaded(data, info, urls, piece_length, last_piece_length, addresses, script) ==
    InitDisk(<< info.total_size >>, data, info, urls, piece_length, last_piece_length,
             addresses, script)

InitTracked(info, urls, piece_length, last_piece_length, addresses, script) ==
    InitLoaded(<< >>, info, urls, piece_length, last_piece_length, addresses, script)

InitFor(info, piece_length, last_piece_length, addresses, script) ==
    InitTracked(info, PrimaryOnly, piece_length, last_piece_length, addresses, script)

InitWith(piece_length, last_piece_length, addresses, script) ==
    InitFor(TorrentInfo(NumPieces, piece_length, last_piece_length),
            piece_length, last_piece_length, addresses, script)

\* ------------------------------------------------------------- remote peers
\* MessageId::from_u8: the message kind of a frame's id byte, or Err
MessageId_from_u8(value) ==
    CASE value = 0 -> "Choke"
      [] value = 1 -> "Unchoke"
      [] value = 2 -> "Interested"
      [] value = 3 -> "NotInterested"
      [] value = 4 -> "Have"
      [] value = 5 -> "Bitfield"
      [] value = 6 -> "Request"
      [] value = 7 -> "Piece"
      [] value = 8 -> "Cancel"
      [] OTHER -> "Err"

RECURSIVE SumOver(_, _)
SumOver(f, S) ==
    IF S = {} THEN 0
    ELSE LET x == CHOOSE y \in S : TRUE IN f[x] + SumOver(f, S \ {x})

\* a multiset of blocks, as a function from the blocks in it to their counts
BagCount(bag, x) == IF x \in DOMAIN bag THEN bag[x] ELSE 0

BagAdd(bag, x) == MapPut(bag, x, BagCount(bag, x) + 1)

BagRemove(bag, x) ==
    IF BagCount(bag, x) > 1 THEN MapPut(bag, x, bag[x] - 1) ELSE MapRemove(bag, x)

BagSize(bag) == SumOver(bag, DOMAIN bag)

PeerMsg(t) == [ type |-> t ]

PieceMsg(b, content) ==
    [ type |-> "Piece", index |-> b.piece_index, begin |-> b.offset,
      length |-> b.length, content |-> content ]

RequestMsg(b) ==
    [ type |-> "Request", index |-> b.piece_index, begin |-> b.offset, length |-> b.length ]

\* A seeder: BITFIELD with every piece, then UNCHOKE, then an answer to every
\* block we request: the original bytes, or corrupted ones if the script allows.
SeederMessages(a) ==
    IF budget[a] = peer_script.msgs
    THEN { [ type |-> "Bitfield", bitfield |-> Pieces ] }
    ELSE IF budget[a] = peer_script.msgs - 1
    THEN { PeerMsg("Unchoke") }
    ELSE { PieceMsg(b, c) : b \in peer_reqs[a], c \in peer_script.contents }

\* PIECEs nobody asked this peer for: a block of the torrent it has no REQUEST
\* for, or the start of a block with half its bytes
UnrequestedBlocks(a) ==
    ( AllBlocks(pm)
      \cup { BlockInfo(b.piece_index, b.offset, b.length \div 2) : b \in AllBlocks(pm) } )
    \ peer_reqs[a]

\* What the remote peer may put on the wire next.  A BITFIELD is only legal as
\* the first message; a PIECE answers a REQUEST the peer has received, with the
\* original bytes or with corrupted ones.
PeerMessages(a) ==
    IF peer_script.seeder THEN SeederMessages(a) ELSE
    { m \in
        { PeerMsg(t) : t \in { "KeepAlive", "Choke", "Unchoke", "Interested",
                               "NotInterested", "Cancel" } }
        \cup { [ type |-> "Have", piece_index |-> p ] : p \in Pieces }
        \cup ( IF budget[a] = peer_script.msgs
               THEN { [ type |-> "Bitfield", bitfield |-> b ] : b \in SUBSET Pieces }
               ELSE {} )
        \cup { RequestMsg(b) : b \in AllBlocks(pm) }
        \cup { PieceMsg(b, c) : b \in peer_reqs[a], c \in peer_script.contents }
      : m.type \in peer_script.kinds }
    \cup ( IF "Unrequested" \in peer_script.kinds
           THEN { PieceMsg(b, c) : b \in UnrequestedBlocks(a), c \in peer_script.contents }
           ELSE {} )

\* messages the remote peers have sent so far, all peers together
MessagesSent == Cardinality(Addrs) * peer_script.msgs - SumOver(budget, Addrs)

\* the remote end closes the connection
PeerClose(a) ==
    /\ conn[a] = "open"
    /\ conn' = [ conn EXCEPT ![a] = "closed" ]
    /\ sent_now' = {}
    /\ UNCHANGED << pmVars, diskVars, tableVars, pc, localVars, mgrVars, engineVars,
                    budget, peer_reqs, outstanding, unknown_frames, peer_script, optimistic, cancel_due, metaVars >>

\* ------------------------------------------------ handle_peer (session task)
Goto(a, label) == pc' = [ pc EXCEPT ![a] = label ]

\* `continue` / end of the match: back to the top of the loop, locals dropped
Continue(a) ==
    /\ Goto(a, "loop")
    /\ msg' = [ msg EXCEPT ![a] = NoMsg ]
    /\ can_request' = [ can_request EXCEPT ![a] = FALSE ]
    /\ piece_data' = [ piece_data EXCEPT ![a] = NoData ]
    /\ rp_queue' = [ rp_queue EXCEPT ![a] = <<>> ]

\* `return Err(..)`: the task ends, locals dropped
Return(a) ==
    /\ Goto(a, "dead")
    /\ msg' = [ msg EXCEPT ![a] = NoMsg ]
    /\ can_request' = [ can_request EXCEPT ![a] = FALSE ]
    /\ piece_data' = [ piece_data EXCEPT ![a] = NoData ]
    /\ rp_queue' = [ rp_queue EXCEPT ![a] = <<>> ]

\* Step 1: take the session out of the table
Handler_Take(a) ==
    /\ pc[a] = "loop"
    /\ TableLockFree
    /\ IF a \in DOMAIN sessions
       THEN /\ session_local' = MapPut(session_local, a, sessions[a])
            /\ sessions' = MapRemove(sessions, a)
            /\ Goto(a, "recv")
            /\ UNCHANGED localVars
       ELSE /\ Return(a)
            /\ UNCHANGED tableVars
    /\ sent_now' = {}
    /\ UNCHANGED << pmVars, diskVars, mgrVars, engineVars, peerVars, optimistic, cancel_due, metaVars >>

\* Step 2: recv_message, no lock held
Handler_Recv(a) ==
    /\ pc[a] = "recv"
    /\ conn[a] = "open"
    /\ budget[a] > 0
    /\ MessagesSent < peer_script.total
    /\ \E m \in PeerMessages(a) :
         /\ msg' = [ msg EXCEPT ![a] = m ]
         /\ peer_reqs' = IF m.type = "Piece"
                         THEN [ peer_reqs EXCEPT ![a] =
                                  @ \ { BlockInfo(m.index, m.begin, m.length) } ]
                         ELSE peer_reqs
         /\ outstanding' = IF m.type = "Piece"
                           THEN [ outstanding EXCEPT ![a] =
                                    BagRemove(@, BlockInfo(m.index, m.begin, m.length)) ]
                           ELSE outstanding
    /\ budget' = [ budget EXCEPT ![a] = @ - 1 ]
    /\ Goto(a, "reinsert")
    /\ sent_now' = {}
    /\ UNCHANGED << pmVars, diskVars, tableVars, rp_queue, can_request, piece_data,
                    mgrVars, engineVars, conn, unknown_frames, peer_script, optimistic, cancel_due, metaVars >>

\* Step 2, a frame whose id MessageId::from_u8 rejects: recv_message has read the
\* whole frame and returns the error of Message::from_bytes; the session is not
\* re-inserted, the task exits
Handler_RecvUnknown(a) ==
    /\ pc[a] = "recv"
    /\ conn[a] = "open"
    /\ budget[a] > 0
    /\ MessagesSent < peer_script.total
    /\ "Unknown" \in peer_script.kinds
    /\ \E id \in 0 .. MaxMessageId : MessageId_from_u8(id) = "Err"
    /\ budget' = [ budget EXCEPT ![a] = @ - 1 ]
    /\ unknown_frames' = [ unknown_frames EXCEPT ![a] = @ + 1 ]
    /\ session_local' = MapRemove(session_local, a)
    /\ Return(a)
    /\ sent_now' = {}
    /\ UNCHANGED << pmVars, diskVars, sessions, mgrVars, engineVars, conn, peer_reqs,
                    outstanding, peer_script, optimistic, cancel_due, metaVars >>

\* Step 2, Err: the session is not re-inserted, the task exits
Handler_RecvErr(a) ==
    /\ pc[a] = "recv"
    /\ conn[a] = "closed"
    /\ session_local' = MapRemove(session_local, a)
    /\ Return(a)
    /\ sent_now' = {}
    /\ UNCHANGED << pmVars, diskVars, sessions, mgrVars, engineVars, peerVars, optimistic, cancel_due, metaVars >>

\* Step 3: put the session back
Handler_Reinsert(a) ==
    /\ pc[a] = "reinsert"
    /\ TableLockFree
    /\ sessions' = MapPut(sessions, a, session_local[a])
    /\ session_local' = MapRemove(session_local, a)
    /\ Goto(a, "handle")
    /\ sent_now' = {}
    /\ UNCHANGED << pmVars, diskVars, localVars, mgrVars, engineVars, peerVars, optimistic, cancel_due, metaVars >>

\* sessions_guard.get_mut(&addr) followed by an update of one field
UpdateSession(a, field, value) ==
    sessions' = IF a \in DOMAIN sessions
                THEN [ sessions EXCEPT ![a] = [ @ EXCEPT ![field] = value ] ]
                ELSE sessions

\* Message::KeepAlive, Message::Cancel
Handler_KeepAlive(a) ==
    /\ pc[a] = "handle"
    /\ msg[a].type \in { "KeepAlive", "Cancel" }
    /\ Continue(a)
    /\ sent_now' = {}
    /\ UNCHANGED << pmVars, diskVars, tableVars, mgrVars, engineVars, peerVars, optimistic, cancel_due, metaVars >>

\* Message::Choke
Handler_Choke(a) ==
    /\ pc[a] = "handle"
    /\ msg[a].type = "Choke"
    /\ TableLockFree
    /\ UpdateSession(a, "peer_choking", TRUE)
    /\ Continue(a)
    /\ sent_now' = {}
    /\ UNCHANGED << pmVars, diskVars, session_local, mgrVars, engineVars, peerVars, optimistic, cancel_due, metaVars >>

\* Message::Unchoke: clear peer_choking, then request_pieces
Handler_Unchoke(a) ==
    /\ pc[a] = "handle"
    /\ msg[a].type = "Unchoke"
    /\ TableLockFree
    /\ UpdateSession(a, "peer_choking", FALSE)
    /\ Goto(a, "rp")
    /\ sent_now' = {}
    /\ UNCHANGED << pmVars, diskVars, session_local, localVars, mgrVars, engineVars,
                    peerVars, optimistic, cancel_due, metaVars >>

\* Message::Interested, Message::NotInterested
Handler_Interested(a) ==
    /\ pc[a] = "handle"
    /\ msg[a].type \in { "Interested", "NotInterested" }
    /\ TableLockFree
    /\ UpdateSession(a, "peer_interested", msg[a].type = "Interested")
    /\ Continue(a)
    /\ sent_now' = {}
    /\ UNCHANGED << pmVars, diskVars, session_local, mgrVars, engineVars, peerVars, optimistic, cancel_due, metaVars >>

\* Message::Have
Handler_Have(a) ==
    /\ pc[a] = "handle"
    /\ msg[a].type = "Have"
    /\ TableLockFree
    /\ PmLockFree
    /\ pm' = peer_has_piece(pm, msg[a].piece_index)
    /\ sessions' = IF a \in DOMAIN sessions /\ sessions[a].peer_bitfield # <<>>
                   THEN [ sessions EXCEPT ![a].peer_bitfield =
                            << @[1] \cup { msg[a].piece_index } >> ]
                   ELSE sessions
    /\ Continue(a)
    /\ sent_now' = {}
    /\ UNCHANGED << verify_ok, verify_err, rehashed, diskVars, session_local, mgrVars, engineVars,
                    peerVars, optimistic, cancel_due, metaVars >>

\* Message::Bitfield: register the peer, store its bitfield, decide INTERESTED
Handler_Bitfield(a) ==
    /\ pc[a] = "handle"
    /\ msg[a].type = "Bitfield"
    /\ TableLockFree
    /\ PmLockFree
    /\ LET peer_bf == msg[a].bitfield
           pieces_we_need == pieces_to_request(pm.our_bitfield, peer_bf)
       IN /\ pm' = add_peer(pm, a, peer_bf)
          /\ UpdateSession(a, "peer_bitfield", << peer_bf >>)
          /\ IF pieces_we_need # <<>>
             THEN Goto(a, "bf_take") /\ UNCHANGED localVars
             ELSE Continue(a)
    /\ sent_now' = {}
    /\ UNCHANGED << verify_ok, verify_err, rehashed, diskVars, session_local, mgrVars, engineVars,
                    peerVars, optimistic, cancel_due, metaVars >>

\* Bitfield branch: extract the session again to send INTERESTED
Handler_BitfieldTake(a) ==
    /\ pc[a] = "bf_take"
    /\ TableLockFree
    /\ IF a \in DOMAIN sessions
       THEN /\ session_local' = MapPut(session_local, a, sessions[a])
            /\ sessions' = MapRemove(sessions, a)
            /\ Goto(a, "bf_send")
            /\ UNCHANGED localVars
       ELSE /\ Return(a)
            /\ UNCHANGED tableVars
    /\ sent_now' = {}
    /\ UNCHANGED << pmVars, diskVars, mgrVars, engineVars, peerVars, optimistic, cancel_due, metaVars >>

\* send_interested, no lock held; on Err the task exits without re-inserting
Handler_BitfieldSend(a) ==
    /\ pc[a] = "bf_send"
    /\ IF conn[a] = "open"
       THEN /\ session_local' = [ session_local EXCEPT ![a].am_interested = TRUE ]
            /\ sent_now' = { [ to |-> a, type |-> "Interested" ] }
            /\ Goto(a, "bf_reinsert")
            /\ UNCHANGED localVars
       ELSE /\ session_local' = MapRemove(session_local, a)
            /\ sent_now' = {}
            /\ Return(a)
    /\ UNCHANGED << pmVars, diskVars, sessions, mgrVars, engineVars, peerVars, optimistic, cancel_due, metaVars >>

Handler_BitfieldReinsert(a) ==
    /\ pc[a] = "bf_reinsert"
    /\ TableLockFree
    /\ sessions' = MapPut(sessions, a, session_local[a])
    /\ session_local' = MapRemove(session_local, a)
    /\ Continue(a)
    /\ sent_now' = {}
    /\ UNCHANGED << pmVars, diskVars, mgrVars, engineVars, peerVars, optimistic, cancel_due, metaVars >>

\* Message::Request, first check: are we choking this peer? (read lock)
Handler_Request(a) ==
    /\ pc[a] = "handle"
    /\ msg[a].type = "Request"
    /\ TableLockFree
    /\ LET am_choking == IF a \in DOMAIN sessions THEN sessions[a].am_choking ELSE TRUE
       IN IF am_choking
          THEN Continue(a)
          ELSE Goto(a, "up_has") /\ UNCHANGED localVars
    /\ sent_now' = {}
    /\ UNCHANGED << pmVars, diskVars, tableVars, mgrVars, engineVars, peerVars, optimistic, cancel_due, metaVars >>

\* Message::Request, second check: do we have the piece?
Handler_RequestHas(a) ==
    /\ pc[a] = "up_has"
    /\ PmLockFree
    /\ IF has_piece(pm, msg[a].index)
       THEN Goto(a, "up_read") /\ UNCHANGED localVars
       ELSE Continue(a)
    /\ sent_now' = {}
    /\ UNCHANGED << pmVars, diskVars, tableVars, mgrVars, engineVars, peerVars, optimistic, cancel_due, metaVars >>

\* handle_upload_request: read_piece, then the range check
Handler_UploadRead(a) ==
    /\ pc[a] = "up_read"
    /\ IF msg[a].begin + msg[a].length > piece_len(pm, msg[a].index)
       THEN Continue(a)
       ELSE /\ piece_data' = [ piece_data EXCEPT ![a] = disk[msg[a].index] ]
            /\ Goto(a, "up_lock")
            /\ UNCHANGED << msg, rp_queue, can_request >>
    /\ sent_now' = {}
    /\ UNCHANGED << pmVars, diskVars, tableVars, mgrVars, engineVars, peerVars, optimistic, cancel_due, metaVars >>

\* handle_upload_request: take the table write lock and look the session up
Handler_UploadLock(a) ==
    /\ pc[a] = "up_lock"
    /\ TableLockFree
    /\ IF a \in DOMAIN sessions
       THEN Goto(a, "up_send") /\ UNCHANGED localVars
       ELSE Continue(a)
    /\ sent_now' = {}
    /\ UNCHANGED << pmVars, diskVars, tableVars, mgrVars, engineVars, peerVars, optimistic, cancel_due, metaVars >>

\* handle_upload_request: send_message(PIECE) completes while the lock is held
Handler_UploadSend(a) ==
    /\ pc[a] = "up_send"
    /\ sent_now' = IF conn[a] = "open"
                   THEN { [ to |-> a, type |-> "Piece", index |-> msg[a].index,
                            begin |-> msg[a].begin,
                            content |-> piece_data[a][msg[a].begin] ] }
                   ELSE {}
    /\ Continue(a)
    /\ UNCHANGED << pmVars, diskVars, tableVars, mgrVars, engineVars, peerVars, optimistic, cancel_due, metaVars >>

\* the other sessions on which the block is pending
PendingElsewhere(a, block) ==
    { c \in Addrs \ {a} : Live(c) /\ block \in SessionOf(c).pending_requests }

\* Message::Piece: mark the request complete; neither this branch nor any other
\* code of the manager writes a CANCEL, so an owed CANCEL stays owed until the
\* block arrives on that session too
Handler_Piece(a) ==
    /\ pc[a] = "handle"
    /\ msg[a].type = "Piece"
    /\ TableLockFree
    /\ LET block == BlockInfo(msg[a].index, msg[a].begin, msg[a].length)
           present == a \in DOMAIN sessions
           was_pending == present /\ request_was_pending(sessions[a], block)
           after == IF was_pending
                    THEN [ remove_pending_request(sessions[a], block)
                             EXCEPT !.downloaded_bytes = @ + msg[a].length ]
                    ELSE sessions[a]
       IN /\ sessions' = IF present THEN [ sessions EXCEPT ![a] = after ] ELSE sessions
          /\ IF was_pending
             THEN /\ can_request' = [ can_request EXCEPT ![a] = PeerSession_can_request(after) ]
                  /\ Goto(a, "piece_write")
                  /\ UNCHANGED << msg, rp_queue, piece_data >>
             ELSE Continue(a)
          /\ cancel_due' = IF was_pending
                           THEN { d \in cancel_due : ~ (d.to = a /\ d.block = block) }
                                \cup IF pm.strategy = "Endgame"
                                     THEN { [ from |-> a, to |-> c, block |-> block ] :
                                              c \in PendingElsewhere(a, block) }
                                     ELSE {}
                           ELSE cancel_due
          /\ unrequested' = IF was_pending THEN unrequested
                            ELSE unrequested \cup
                                   { [ from |-> a, block |-> block,
                                       active |-> block.piece_index
                                                    \in DOMAIN pm.in_progress ] }
    /\ sent_now' = {}
    /\ UNCHANGED << pmVars, diskVars, session_local, mgrVars, engineVars, peerVars, optimistic,
                    torrent_bytes, info_hashes, fileVars, cmdVars, statsVars, removed >>

\* Message::Piece: write the block into the piece buffer
Handler_PieceWrite(a) ==
    /\ pc[a] = "piece_write"
    /\ PmLockFree
    /\ LET block == BlockInfo(msg[a].index, msg[a].begin, msg[a].length)
           r == write_block(pm, block, msg[a].length, msg[a].content)
       IN /\ pm' = r.pm
          /\ IF r.result = "complete"
             THEN Goto(a, "verify") /\ UNCHANGED localVars
             ELSE IF can_request[a]
                  THEN Goto(a, "rp") /\ UNCHANGED localVars
                  ELSE Continue(a)
    /\ sent_now' = {}
    /\ UNCHANGED << verify_ok, verify_err, rehashed, diskVars, tableVars, mgrVars, engineVars,
                    peerVars, optimistic, cancel_due, metaVars >>

\* handle_piece_complete: verify_piece under the piece-manager lock
Handler_Verify(a) ==
    /\ pc[a] = "verify"
    /\ PmLockFree
    /\ LET idx == msg[a].index
           r == verify_piece(pm, idx)
       IN /\ pm' = r.pm
          /\ rehashed' = IF r.hashed /\ idx \in pm.our_bitfield
                         THEN rehashed \cup {idx} ELSE rehashed
          /\ verify_err' = IF r.hashed /\ ~ r.ok THEN verify_err \cup {idx} ELSE verify_err
          /\ IF r.ok
             THEN /\ verify_ok' = [ verify_ok EXCEPT ![idx] = @ + 1 ]
                  /\ piece_data' = [ piece_data EXCEPT ![a] = pm.in_progress[idx].data ]
                  /\ Goto(a, "disk_write")
                  /\ UNCHANGED << msg, rp_queue, can_request >>
             ELSE /\ Return(a)
                  /\ UNCHANGED verify_ok
    /\ sent_now' = {}
    /\ UNCHANGED << diskVars, tableVars, mgrVars, engineVars, peerVars, optimistic, cancel_due, metaVars >>

\* handle_piece_complete: write_piece succeeds, the handler continues its loop
Handler_DiskWrite(a) ==
    /\ pc[a] = "disk_write"
    /\ disk' = [ disk EXCEPT ![msg[a].index] = piece_data[a] ]
    /\ disk_writes' = [ disk_writes EXCEPT ![msg[a].index] = @ + 1 ]
    /\ Continue(a)
    /\ sent_now' = {}
    /\ UNCHANGED << pmVars, tableVars, mgrVars, engineVars, peerVars, optimistic, cancel_due, metaVars >>

\* handle_piece_complete: write_piece fails, the error ends the handler
Handler_DiskWriteErr(a) ==
    /\ pc[a] = "disk_write"
    /\ Return(a)
    /\ sent_now' = {}
    /\ UNCHANGED << pmVars, diskVars, tableVars, mgrVars, engineVars, peerVars, optimistic, cancel_due, metaVars >>

\* ---------------------------------------------------------- request_pieces
RECURSIVE Perms(_)
Perms(S) ==
    IF S = {} THEN { <<>> }
    ELSE UNION { { <<x>> \o q : q \in Perms(S \ {x}) } : x \in S }

\* else-branch of request_pieces: missing blocks of in-progress pieces the peer has,
\* visited in the order the map yields them
RECURSIVE RequestMissing(_, _, _, _)
RequestMissing(m, peer_bf, pending, order) ==
    IF order = <<>> THEN <<>>
    ELSE LET piece_idx == Head(order)
         IN IF piece_idx \in peer_bf
            THEN LET blocks == Take(get_missing_blocks(m, piece_idx),
                                    MAX_PENDING_REQUESTS - Cardinality(pending))
                     pending2 == pending \cup Range(blocks)
                 IN IF Cardinality(pending2) >= MAX_PENDING_REQUESTS
                    THEN blocks
                    ELSE blocks \o RequestMissing(m, peer_bf, pending2, Tail(order))
            ELSE RequestMissing(m, peer_bf, pending, Tail(order))

\* request_pieces up to its first send: both write locks are taken here and kept
Handler_RequestPieces(a) ==
    /\ pc[a] = "rp"
    /\ TableLockFree
    /\ PmLockFree
    /\ sent_now' = {}
    /\ IF a \notin DOMAIN sessions
       THEN Return(a) /\ UNCHANGED pm
       ELSE LET session == sessions[a]
            IN IF ~ PeerSession_can_request(session) \/ session.peer_bitfield = <<>>
               THEN Continue(a) /\ UNCHANGED pm
               ELSE LET peer_bf == session.peer_bitfield[1]
                        choices == select_next_choices(pm, peer_bf)
                    IN IF choices # {}
                       THEN \E piece_idx \in choices :
                              LET q == Take(get_blocks_for_piece(pm, piece_idx),
                                            MAX_PENDING_REQUESTS
                                              - Cardinality(session.pending_requests))
                              IN /\ pm' = select_next_piece(pm, a, piece_idx)
                                 /\ IF q = <<>> THEN Continue(a)
                                    ELSE /\ rp_queue' = [ rp_queue EXCEPT ![a] = q ]
                                         /\ Goto(a, "rp_send")
                                         /\ UNCHANGED << msg, can_request, piece_data >>
                       ELSE \E order \in Perms(in_progress_pieces(pm)) :
                              LET q == RequestMissing(pm, peer_bf,
                                                      session.pending_requests, order)
                              IN /\ UNCHANGED pm
                                 /\ IF q = <<>> THEN Continue(a)
                                    ELSE /\ rp_queue' = [ rp_queue EXCEPT ![a] = q ]
                                         /\ Goto(a, "rp_send")
                                         /\ UNCHANGED << msg, can_request, piece_data >>
    /\ UNCHANGED << verify_ok, verify_err, rehashed, diskVars, tableVars, mgrVars, engineVars,
                    peerVars, optimistic, cancel_due, metaVars >>

\* request_pieces: one send_message(REQUEST) completes while both locks are held
Handler_RequestSend(a) ==
    /\ pc[a] = "rp_send"
    /\ IF conn[a] = "open"
       THEN LET block == Head(rp_queue[a])
            IN /\ sent_now' = { [ to |-> a, type |-> "Request", block |-> block ] }
               /\ sessions' = [ sessions EXCEPT ![a] = add_pending_request(@, block) ]
               /\ peer_reqs' = [ peer_reqs EXCEPT ![a] = @ \cup {block} ]
               /\ outstanding' = [ outstanding EXCEPT ![a] = BagAdd(@, block) ]
               /\ IF Tail(rp_queue[a]) = <<>>
                  THEN Continue(a)
                  ELSE /\ rp_queue' = [ rp_queue EXCEPT ![a] = Tail(@) ]
                       /\ UNCHANGED << pc, msg, can_request, piece_data >>
       ELSE /\ sent_now' = {}
            /\ Return(a)
            /\ UNCHANGED << sessions, peer_reqs, outstanding >>
    /\ UNCHANGED << pmVars, diskVars, session_local, mgrVars, engineVars, conn, budget,
                    unknown_frames,
                    peer_script, optimistic, cancel_due, metaVars >>

\* ------------------------------------------------------- PeerManager::run
Cmd(t) == [ cmd |-> t ]

MgrSelect == mgr_pc = "select" /\ ~ cancelled

\* biased select, first branch: the token is cancelled, leave the loop
Mgr_Cancelled ==
    /\ mgr_pc = "select"
    /\ cancelled
    /\ mgr_pc' = "cleanup"
    /\ sent_now' = {}
    /\ UNCHANGED << pmVars, diskVars, tableVars, pc, localVars, mgr_iter, mgr_arg, paused,
                    command_rx, engineVars, peerVars,
                    mgr_stats, optimistic, cancel_due, metaVars >>

\* after the loop: sessions.write().await, clear the table
Mgr_Cleanup ==
    /\ mgr_pc = "cleanup"
    /\ TableLockFree
    /\ sessions' = [ a \in {} |-> PeerSession_new ]
    /\ mgr_pc' = "done"
    /\ sent_now' = {}
    /\ UNCHANGED << pmVars, diskVars, session_local, pc, localVars, mgr_iter, mgr_arg,
                    paused, command_rx, engineVars, peerVars,
                    mgr_stats, optimistic, cancel_due, metaVars >>

\* AddPeer is ignored while paused.  The engine sends every AddPeer from
\* handle_start, before it can send a Pause, and the channel is FIFO, so an
\* AddPeer is never received while paused.

\* AddPeer, connect_to_peer fails at connect, at the handshake or at the BITFIELD send
Mgr_AddPeerFail ==
    /\ MgrSelect
    /\ command_rx # <<>>
    /\ Head(command_rx).cmd = "AddPeer"
    /\ ~ paused
    /\ command_rx' = Tail(command_rx)
    /\ sent_now' = {}
    /\ UNCHANGED << pmVars, diskVars, tableVars, pc, localVars, mgr_pc, mgr_iter, mgr_arg,
                    paused, engineVars, peerVars,
                    mgr_stats, optimistic, cancel_due, metaVars >>

\* AddPeer, connect_to_peer succeeds: handshake, our BITFIELD, store the session,
\* spawn the handler
Mgr_AddPeer ==
    /\ MgrSelect
    /\ command_rx # <<>>
    /\ Head(command_rx).cmd = "AddPeer"
    /\ ~ paused
    /\ TableLockFree
    /\ LET addr == Head(command_rx).addr
       IN /\ conn' = [ conn EXCEPT ![addr] = "open" ]
          /\ sent_now' = { [ to |-> addr, type |-> "Bitfield", bitfield |-> pm.our_bitfield ] }
          /\ sessions' = MapPut(sessions, addr, PeerSession_new)
          /\ pc' = [ pc EXCEPT ![addr] = "loop" ]
    /\ command_rx' = Tail(command_rx)
    /\ UNCHANGED << pmVars, diskVars, session_local, localVars, mgr_pc, mgr_iter, mgr_arg,
                    paused, engineVars, budget, peer_reqs, outstanding, unknown_frames,
                    peer_script,
                    mgr_stats, optimistic, cancel_due, metaVars >>

\* Pause / Resume
Mgr_PauseResume ==
    /\ MgrSelect
    /\ command_rx # <<>>
    /\ Head(command_rx).cmd \in { "Pause", "Resume" }
    /\ paused' = (Head(command_rx).cmd = "Pause")
    /\ command_rx' = Tail(command_rx)
    /\ sent_now' = {}
    /\ UNCHANGED << pmVars, diskVars, tableVars, pc, localVars, mgr_pc, mgr_iter, mgr_arg,
                    engineVars, peerVars,
                    mgr_stats, optimistic, cancel_due, metaVars >>

\* a timer branch is taken only when no earlier branch of the biased select is ready
MgrTimerReady == MgrSelect /\ command_rx = <<>>

\* keep_alive_interval tick: send_keep_alives takes the table write lock; the
\* sessions idle for longer than KEEP_ALIVE_INTERVAL are some of those in the table
Mgr_KeepAliveTick ==
    /\ MgrTimerReady
    /\ TableLockFree
    /\ \E idle \in SUBSET (DOMAIN sessions) :
         /\ idle # {}
         /\ mgr_iter' = SeqOfSet(idle)
    /\ mgr_pc' = "ka_send"
    /\ sent_now' = {}
    /\ UNCHANGED << pmVars, diskVars, tableVars, pc, localVars, mgr_arg, paused,
                    command_rx, engineVars, peerVars,
                    mgr_stats, optimistic, cancel_due, metaVars >>

\* send_keep_alives: one send_keep_alive completes while the lock is held
Mgr_KeepAliveSend ==
    /\ mgr_pc = "ka_send"
    /\ sent_now' = IF conn[Head(mgr_iter)] = "open"
                   THEN { [ to |-> Head(mgr_iter), type |-> "KeepAlive" ] }
                   ELSE {}
    /\ mgr_iter' = Tail(mgr_iter)
    /\ mgr_pc' = IF Tail(mgr_iter) = <<>> THEN "select" ELSE "ka_send"
    /\ UNCHANGED << pmVars, diskVars, tableVars, pc, localVars, mgr_arg, paused,
                    command_rx, engineVars, peerVars,
                    mgr_stats, optimistic, cancel_due, metaVars >>

\* peer_stats.sort_by(|a, b| b.1.cmp(&a.1)): most bytes first
best_uploaders_first(table, peer_stats) ==
    \A i \in 1 .. (Len(peer_stats) - 1) :
       table[peer_stats[i]].downloaded_bytes >= table[peer_stats[i + 1]].downloaded_bytes

\* choking_interval tick: update_choking takes the table write lock and ranks the
\* interested peers of the table by the bytes they delivered (equal byte counts:
\* in the order the map iterates, which is any order); with no interested peer
\* the round changes nothing
Mgr_ChokingTick ==
    /\ MgrTimerReady
    /\ ~ paused
    /\ TableLockFree
    /\ LET interested == { a \in DOMAIN sessions : sessions[a].peer_interested }
       IN /\ interested # {}
          /\ \E peer_stats \in Perms(interested) :
               /\ best_uploaders_first(sessions, peer_stats)
               /\ mgr_iter' = peer_stats
    /\ mgr_arg' = 0
    /\ mgr_pc' = "ch_send"
    /\ sent_now' = {}
    /\ UNCHANGED << pmVars, diskVars, tableVars, pc, localVars, paused, command_rx,
                    engineVars, peerVars,
                    mgr_stats, optimistic, cancel_due, metaVars >>

\* update_choking: one iteration of the loop over peer_stats
Mgr_ChokingStep ==
    /\ mgr_pc = "ch_send"
    /\ LET addr == Head(mgr_iter)
           s == sessions[addr]
       IN IF mgr_arg < NUM_UNCHOKED
          THEN /\ mgr_arg' = mgr_arg + 1
               /\ IF s.am_choking
                  THEN /\ sessions' = [ sessions EXCEPT ![addr].am_choking = FALSE ]
                       /\ sent_now' = IF conn[addr] = "open"
                                      THEN { [ to |-> addr, type |-> "Unchoke" ] } ELSE {}
                  ELSE /\ UNCHANGED sessions
                       /\ sent_now' = {}
          ELSE /\ UNCHANGED mgr_arg
               /\ IF ~ s.am_choking
                  THEN /\ sessions' = [ sessions EXCEPT ![addr].am_choking = TRUE ]
                       /\ sent_now' = IF conn[addr] = "open"
                                      THEN { [ to |-> addr, type |-> "Choke" ] } ELSE {}
                  ELSE /\ UNCHANGED sessions
                       /\ sent_now' = {}
    /\ mgr_iter' = Tail(mgr_iter)
    /\ mgr_pc' = IF Tail(mgr_iter) = <<>> THEN "select" ELSE "ch_send"
    /\ UNCHANGED << pmVars, diskVars, session_local, pc, localVars, paused, command_rx,
                    engineVars, peerVars,
                    mgr_stats, optimistic, cancel_due, metaVars >>

\* optimistic_interval tick: optimistic_unchoke picks one choked, interested peer
Mgr_OptimisticTick ==
    /\ MgrTimerReady
    /\ ~ paused
    /\ TableLockFree
    /\ LET choked_interested == { a \in DOMAIN sessions :
                                    sessions[a].am_choking /\ sessions[a].peer_interested }
       IN \E chosen_addr \in choked_interested :
            /\ mgr_iter' = << chosen_addr >>
            /\ optimistic' = << chosen_addr >>
    /\ UNCHANGED << cancel_due, metaVars >>
    /\ mgr_pc' = "ou_send"
    /\ sent_now' = {}
    /\ UNCHANGED << pmVars, diskVars, tableVars, pc, localVars, mgr_arg, paused,
                    command_rx, engineVars, peerVars,
                    mgr_stats >>

\* optimistic_unchoke: send_unchoke completes while the lock is held
Mgr_OptimisticSend ==
    /\ mgr_pc = "ou_send"
    /\ sessions' = [ sessions EXCEPT ![Head(mgr_iter)].am_choking = FALSE ]
    /\ sent_now' = IF conn[Head(mgr_iter)] = "open"
                   THEN { [ to |-> Head(mgr_iter), type |-> "Unchoke" ] } ELSE {}
    /\ mgr_iter' = <<>>
    /\ mgr_pc' = "select"
    /\ UNCHANGED << pmVars, diskVars, session_local, pc, localVars, mgr_arg, paused,
                    command_rx, engineVars, peerVars,
                    mgr_stats, optimistic, cancel_due, metaVars >>

\* PieceManager::mark_block_failed is called by handle_pending_requests and is
\* defined nowhere in the sources: the block is released for a new request
mark_block_failed(m, block) ==
    IF block.piece_index \in DOMAIN m.in_progress
    THEN [ m EXCEPT !.in_progress[block.piece_index].downloaded_blocks = @ \ {block.offset} ]
    ELSE m

RECURSIVE mark_blocks_failed(_, _)
mark_blocks_failed(m, blocks) ==
    IF blocks = {} THEN m
    ELSE LET block == CHOOSE b \in blocks : TRUE
         IN mark_blocks_failed(mark_block_failed(m, block), blocks \ {block})

\* a timeout handler that finds the requests and leaves them in the pending map
drop_timed_out_keep(s) == s

\* handle_pending_requests for one session of the table
drop_timed_out(s) ==
    [ s EXCEPT !.pending_requests = @ \ get_timed_out_requests(s), !.timed_out = {} ]

\* the timed-out requests of the sessions that are in the table
TimedOutInTable == UNION { get_timed_out_requests(sessions[a]) : a \in DOMAIN sessions }

\* tick_interval tick: handle_pending_requests unless paused (over the sessions
\* in the table, under the table lock and then the piece-manager lock), then
\* PeerManager::update_stats: sum the sessions in the table
Mgr_UpdateStats ==
    /\ MgrTimerReady
    /\ TableLockFree
    /\ IF ~ paused /\ TimedOutInTable # {}
       THEN /\ PmLockFree
            /\ sessions' = [ a \in DOMAIN sessions |-> drop_timed_out(sessions[a]) ]
            /\ pm' = mark_blocks_failed(pm, TimedOutInTable)
       ELSE UNCHANGED << sessions, pm >>
    /\ mgr_stats' = SumOver([ a \in DOMAIN sessions |-> sessions[a].downloaded_bytes ],
                            DOMAIN sessions)
    /\ sent_now' = {}
    /\ UNCHANGED << verify_ok, verify_err, rehashed, diskVars, session_local, pc, localVars,
                    mgr_pc, mgr_iter, mgr_arg, paused, command_rx, engineVars, peerVars, optimistic, cancel_due, metaVars >>

\* REQUEST_TIMEOUT passes for a request of the session, wherever the session is
Time_Passes(a) ==
    /\ Live(a)
    /\ \E block \in SessionOf(a).pending_requests \ SessionOf(a).timed_out :
          IF a \in DOMAIN sessions
          THEN /\ sessions' = [ sessions EXCEPT ![a].timed_out = @ \cup {block} ]
               /\ UNCHANGED session_local
          ELSE /\ session_local' = [ session_local EXCEPT ![a].timed_out = @ \cup {block} ]
               /\ UNCHANGED sessions
    /\ sent_now' = {}
    /\ UNCHANGED << pmVars, diskVars, pc, localVars, mgrVars, engineVars, peerVars, optimistic, cancel_due, metaVars >>

\* ------------------------------------------------------- TorrentEngine
\* announce_to_tracker: the event of the AnnounceRequest it builds
AnnounceRequest_event == "None"

\* url.starts_with("http://") || url.starts_with("https://")
is_http(url) == url[1] \in { "http", "https" }

RECURSIVE Flatten(_)
Flatten(tiers) == IF tiers = << >> THEN << >> ELSE Head(tiers) \o Flatten(Tail(tiers))

\* push every URL of the list that trackers_to_try does not contain yet
RECURSIVE push_new(_, _)
push_new(to_try, urls) ==
    IF urls = << >> THEN to_try
    ELSE push_new(IF Head(urls) \in Range(to_try) THEN to_try
                  ELSE Append(to_try, Head(urls)), Tail(urls))

\* announce_to_tracker: primary, then the flattened announce-list, HTTP(S) only
trackers_to_try(urls) ==
    SelectSeq(push_new(<< urls.announce >>, Flatten(urls.announce_list)), is_http)

\* tracker_list.iter().position(|t| &t.url == tracker_url), 0 for None
tracker_position(info, url) ==
    IF \E i \in 1 .. Len(info) : info[i].url = url
    THEN CHOOSE i \in 1 .. Len(info) :
             info[i].url = url /\ \A j \in 1 .. (i - 1) : info[j].url # url
    ELSE 0

\* the entry of the URL is pushed with, or set to, status Updating
set_updating(info, url) ==
    IF tracker_position(info, url) = 0
    THEN Append(info, [ url |-> url, status |-> "Updating" ])
    ELSE [ info EXCEPT ![tracker_position(info, url)].status = "Updating" ]

\* tracker_list.iter_mut().find(|t| &t.url == tracker_url): set its status
set_status(info, url, status) ==
    IF tracker_position(info, url) = 0 THEN info
    ELSE [ info EXCEPT ![tracker_position(info, url)].status = status ]

\* an Err branch that forgets to record the failure
record_error_none(info, url) == info

\* the Err branch of the announce
record_error(info, url) == set_status(info, url, "Error")

\* the loop of announce_to_tracker from the i-th URL on: the tracker list and
\* the URLs tried with their outcomes
RECURSIVE announce_round(_, _, _, _, _)
announce_round(to_try, i, info, tried, up) ==
    IF i > Len(to_try) THEN [ info |-> info, tried |-> tried ]
    ELSE LET url == to_try[i]
             updating == set_updating(info, url)
         IN IF url \in up
            THEN [ info |-> set_status(updating, url, "Working"),
                   tried |-> Append(tried, [ url |-> url, ok |-> TRUE ]) ]
            ELSE announce_round(to_try, i + 1, record_error(updating, url),
                                Append(tried, [ url |-> url, ok |-> FALSE ]), up)

announce_to_tracker ==
    announce_round(trackers_to_try(announce_urls), 1, tracker_info, << >>, tracker_up)

\* a stamp that is written on every tick that sees the download complete
stamp_always(completed, timestamp) == << timestamp >>

\* update_stats: completed_at is written only while it is None
stamp_completed_at(completed, timestamp) ==
    IF completed = << >> THEN << timestamp >> ELSE completed

\* a metadata check that fires only when both fields are zero
NoMetadata_both == metainfo.total_size = 0 /\ metainfo.piece_count = 0

\* the run loop is being executed: by the caller of an engine commanded directly,
\* or by the spawned task once it holds the engine's write lock
InRunLoop == run_task \in { "direct", "running" }

\* run, "Handle commands": the loop takes command c from its channel.  An engine
\* commanded directly takes it at once; behind the command layer the task must
\* be in the loop, the token not cancelled (the select is biased), and c next
Delivered(c) ==
    IF run_task = "direct" THEN UNCHANGED cmdVars
    ELSE /\ run_task = "running"
         /\ ~ cancelled
         /\ engine_cmds # << >>
         /\ Head(engine_cmds) = c
         /\ engine_cmds' = Tail(engine_cmds)
         /\ UNCHANGED << run_task, calls >>

\* run, the two branches that end with `break`: the token was cancelled, or the
\* next command is Stop; run returns and the task drops the engine's write lock
Delivered_Stop ==
    IF run_task = "direct" THEN UNCHANGED cmdVars
    ELSE /\ run_task = "running"
         /\ cancelled \/ ( engine_cmds # << >> /\ Head(engine_cmds) = "Stop" )
         /\ run_task' = "finished"
         /\ engine_cmds' = IF cancelled THEN engine_cmds ELSE Tail(engine_cmds)
         /\ UNCHANGED calls

\* handle_start: "Check if we have metadata (for magnet links)"
NoMetadata == metainfo.total_size = 0 \/ metainfo.piece_count = 0

\* handle_start, first start: allocate the files, spawn the peer manager, announce,
\* ask the manager to connect to the peers
Engine_Start ==
    /\ engine_running
    /\ ~ peer_manager_tx
    /\ first_starts < MaxStarts
    /\ ~ NoMetadata
    /\ first_starts' = first_starts + 1
    /\ effects' = effects \cup { "allocate_files", "spawn", "announce" }
    /\ announces' = Append(announces, AnnounceRequest_event)
    /\ tracker_info' = announce_to_tracker.info
    /\ last_round' = announce_to_tracker.tried
    /\ peer_manager_tx' = TRUE
    /\ mgr_pc' = "select"
    /\ LET addrs == SeqOfSet(peer_addresses)
       IN command_rx' = [ i \in 1 .. Len(addrs) |-> [ cmd |-> "AddPeer", addr |-> addrs[i] ] ]
    /\ engine_state' = "Downloading"
    /\ Delivered("Start")
    /\ sent_now' = {}
    /\ UNCHANGED << pmVars, diskVars, tableVars, pc, localVars, mgr_iter, mgr_arg, paused,
                    engine_running, cancelled, peer_addresses, peerVars,
                    mgr_stats, engine_stats, snapshot, metainfo, completed_at, now,
                    announce_urls, tracker_up, optimistic, cancel_due, quietVars >>

\* handle_start, first start of a descriptor without metadata: Starting, then Error
Engine_StartNoMetadata ==
    /\ engine_running
    /\ ~ peer_manager_tx
    /\ first_starts < MaxStarts
    /\ NoMetadata
    /\ first_starts' = first_starts + 1
    /\ engine_state' = "Error"
    /\ Delivered("Start")
    /\ sent_now' = {}
    /\ UNCHANGED << pmVars, diskVars, tableVars, pc, localVars, mgrVars, engine_running,
                    peer_manager_tx, peer_addresses, cancelled, engine_stats, snapshot,
                    peerVars, metainfo, effects, trackerVars, optimistic, cancel_due, quietVars >>

\* handle_pause without a peer manager: only the state changes
Engine_PauseIdle ==
    /\ engine_running
    /\ ~ peer_manager_tx
    /\ engine_state' = "Paused"
    /\ Delivered("Pause")
    /\ sent_now' = {}
    /\ UNCHANGED << pmVars, diskVars, tableVars, pc, localVars, mgrVars, engine_running,
                    peer_manager_tx, peer_addresses, cancelled, engine_stats, snapshot,
                    peerVars, metainfo, effects, first_starts, trackerVars, optimistic, cancel_due, quietVars >>

\* tracker_timer tick: announce when Downloading or Seeding
Engine_TrackerTick ==
    /\ engine_running
    /\ InRunLoop
    /\ IF engine_state \in { "Downloading", "Seeding" }
       THEN /\ Len(announces) < MaxAnnounces
            /\ effects' = effects \cup { "announce" }
            /\ announces' = Append(announces, AnnounceRequest_event)
            /\ tracker_info' = announce_to_tracker.info
            /\ last_round' = announce_to_tracker.tried
       ELSE UNCHANGED << effects, announces, tracker_info, last_round >>
    /\ sent_now' = {}
    /\ UNCHANGED << pmVars, diskVars, tableVars, pc, localVars, mgrVars, engine_state,
                    engine_running, peer_manager_tx, peer_addresses, cancelled,
                    engine_stats, snapshot, peerVars, metainfo, first_starts,
                    completed_at, now, announce_urls, tracker_up, optimistic, cancel_due, metaVars >>

\* run: EngineCommand::SetStrategy(strategy)
Strategies == { "RarestFirst", "Sequential", "Random", "Endgame" }

Engine_SetStrategy ==
    /\ engine_running
    /\ PmLockFree
    /\ \E strategy \in Strategies \ { pm.strategy } :
         pm' = [ pm EXCEPT !.strategy = strategy ]
    /\ sent_now' = {}
    /\ UNCHANGED << verify_ok, verify_err, rehashed, diskVars, tableVars, pc, localVars,
                    mgrVars, engineVars, peerVars, optimistic, cancel_due, metaVars >>

\* handle_pause
Engine_Pause ==
    /\ engine_running
    /\ peer_manager_tx
    /\ engine_state \in { "Downloading", "Seeding" }
    /\ Len(command_rx) < MaxQueue
    /\ engine_state' = "Paused"
    /\ command_rx' = Append(command_rx, Cmd("Pause"))
    /\ Delivered("Pause")
    /\ sent_now' = {}
    /\ UNCHANGED << pmVars, diskVars, tableVars, pc, localVars, mgr_pc, mgr_iter, mgr_arg,
                    paused, engine_running, peer_manager_tx, cancelled, peer_addresses,
                    peerVars,
                    mgr_stats, engine_stats, snapshot,
                    metainfo, effects, first_starts, trackerVars, optimistic, cancel_due, quietVars >>

\* handle_start when the peer manager already exists: resume
Engine_Resume ==
    /\ engine_running
    /\ peer_manager_tx
    /\ engine_state = "Paused"
    /\ Len(command_rx) < MaxQueue
    /\ engine_state' = IF is_complete(pm) THEN "Seeding" ELSE "Downloading"
    /\ command_rx' = Append(command_rx, Cmd("Resume"))
    /\ Delivered("Start")
    /\ sent_now' = {}
    /\ UNCHANGED << pmVars, diskVars, tableVars, pc, localVars, mgr_pc, mgr_iter, mgr_arg,
                    paused, engine_running, peer_manager_tx, cancelled, peer_addresses,
                    peerVars,
                    mgr_stats, engine_stats, snapshot,
                    metainfo, effects, first_starts, trackerVars, optimistic, cancel_due, quietVars >>

\* a second passes
Clock_Tick ==
    /\ now < MaxClock
    /\ now' = now + 1
    /\ sent_now' = {}
    /\ UNCHANGED << pmVars, diskVars, tableVars, pc, localVars, mgrVars, peerVars,
                    engine_state, engine_running, peer_manager_tx, peer_addresses,
                    cancelled, engine_stats, snapshot, metainfo, effects, first_starts,
                    completed_at, announces, announceVars, optimistic, cancel_due, metaVars >>

\* a tracker starts or stops answering
Tracker_Change ==
    /\ engine_running
    /\ \E up \in SUBSET TrackerUrls : up # tracker_up /\ tracker_up' = up
    /\ sent_now' = {}
    /\ UNCHANGED << pmVars, diskVars, tableVars, pc, localVars, mgrVars, peerVars,
                    engine_state, engine_running, peer_manager_tx, peer_addresses,
                    cancelled, engine_stats, snapshot, metainfo, effects, first_starts,
                    completed_at, now, announces, announce_urls, tracker_info,
                    last_round, optimistic, cancel_due, metaVars >>

\* save_progress: the row written to the database
TorrentSession_row == [ bitfield |-> pm.our_bitfield, downloaded |-> engine_stats ]

\* handle_stop: cancel the token tree, save the final progress; run returns
Engine_Stop ==
    /\ engine_running
    /\ peer_manager_tx \/ run_task # "direct"
    /\ engine_state' = "Stopped"
    /\ cancelled' = TRUE
    /\ snapshot' = << TorrentSession_row >>
    /\ peer_manager_tx' = FALSE
    /\ engine_running' = FALSE
    /\ Delivered_Stop
    /\ sent_now' = {}
    /\ UNCHANGED << pmVars, diskVars, tableVars, pc, localVars, mgrVars, peer_addresses,
                    peerVars, engine_stats,
                    metainfo, effects, first_starts, trackerVars, optimistic, cancel_due, quietVars >>

\* stats_timer tick, TorrentEngine::update_stats: ask the peer manager for its
\* statistics (it answers from its select loop), then look for completion
Engine_UpdateStats ==
    /\ engine_running
    /\ IF peer_manager_tx
       THEN MgrSelect /\ command_rx = << >> /\ engine_stats' = mgr_stats
       ELSE UNCHANGED engine_stats
    /\ engine_state' = IF is_complete(pm) /\ engine_state = "Downloading"
                       THEN "Seeding" ELSE engine_state
    /\ completed_at' = IF is_complete(pm)
                       THEN stamp_completed_at(completed_at, now) ELSE completed_at
    /\ sent_now' = {}
    /\ UNCHANGED << pmVars, diskVars, tableVars, pc, localVars, mgrVars, engine_running,
                    peer_manager_tx, peer_addresses, cancelled, snapshot, peerVars,
                    metainfo, effects, first_starts, now, announces, announceVars, optimistic, cancel_due, metaVars >>

\* save_timer tick: save_progress unless Stopped
Engine_SaveProgress ==
    /\ engine_running
    /\ engine_state # "Stopped"
    /\ snapshot' = << TorrentSession_row >>
    /\ sent_now' = {}
    /\ UNCHANGED << pmVars, diskVars, tableVars, pc, localVars, mgrVars, engine_state,
                    engine_running, peer_manager_tx, peer_addresses, cancelled,
                    engine_stats, peerVars,
                    metainfo, effects, first_starts, trackerVars, optimistic, cancel_due, metaVars >>

\* ------------------------------------------------------- specifications
\* the steps of a session task that downloads
DownloadStep(a) ==
    \/ Handler_Take(a) \/ Handler_Recv(a) \/ Handler_Reinsert(a)
    \/ Handler_Unchoke(a)
    \/ Handler_Bitfield(a) \/ Handler_BitfieldTake(a) \/ Handler_BitfieldSend(a)
    \/ Handler_BitfieldReinsert(a)
    \/ Handler_Piece(a) \/ Handler_PieceWrite(a) \/ Handler_Verify(a)
    \/ Handler_DiskWrite(a)
    \/ Handler_RequestPieces(a) \/ Handler_RequestSend(a)

HandlerStep(a) ==
    \/ DownloadStep(a)
    \/ Handler_RecvErr(a) \/ Handler_DiskWriteErr(a)
    \/ Handler_KeepAlive(a) \/ Handler_Choke(a)
    \/ Handler_Interested(a) \/ Handler_Have(a)
    \/ Handler_Request(a) \/ Handler_RequestHas(a)

\* serving a REQUEST from disk
UploadStep(a) ==
    \/ Handler_Request(a) \/ Handler_RequestHas(a)
    \/ Handler_UploadRead(a) \/ Handler_UploadLock(a) \/ Handler_UploadSend(a)

MgrStep ==
    \/ Mgr_Cancelled \/ Mgr_Cleanup
    \/ Mgr_AddPeerFail \/ Mgr_AddPeer \/ Mgr_PauseResume
    \/ Mgr_KeepAliveTick \/ Mgr_KeepAliveSend
    \/ Mgr_ChokingTick \/ Mgr_ChokingStep
    \/ Mgr_OptimisticTick \/ Mgr_OptimisticSend

EngineStep == Engine_Start \/ Engine_Pause \/ Engine_Resume \/ Engine_Stop

Next ==
    \/ \E a \in Addrs : HandlerStep(a)
    \/ \E a \in Addrs : PeerClose(a)
    \/ MgrStep
    \/ EngineStep

Script(kinds, msgs, total) ==
    [ kinds |-> kinds, msgs |-> msgs, total |-> total, seeder |-> FALSE,
      contents |-> { "good", "bad" } ]

\* a torrent whose pieces have BlocksPerPiece blocks, the last piece half a block
PieceLength == BlocksPerPiece * BLOCK_SIZE
LastPieceLength == BLOCK_SIZE \div 2

\* One engine whose tracker returned a single peer; the peer may send anything.
Init == InitWith(PieceLength, LastPieceLength, { 1 },
                 Script(AllKinds, MaxPeerMsgs, MaxPeerMsgs))

Spec == Init /\ [][Next]_vars

\* A swarm: the tracker returned every address, the peers are seeders or partial
\* seeders that unchoke us and answer our REQUESTs (with good or corrupted bytes).
SwarmKinds == { "Bitfield", "Unchoke", "Piece" }

SeederScript(msgs, total, contents) ==
    [ kinds |-> SwarmKinds, msgs |-> msgs, total |-> total, seeder |-> TRUE,
      contents |-> contents ]

InitSwarm == InitWith(PieceLength, LastPieceLength, Addrs,
                      Script(SwarmKinds, MaxSwarmMsgs, 2 * MaxSwarmMsgs))

NextSwarm ==
    \/ \E a \in Addrs : DownloadStep(a)
    \/ \E a \in Addrs : Handler_DiskWriteErr(a)
    \/ Mgr_AddPeer
    \/ Engine_Start

SpecSwarm == InitSwarm /\ [][NextSwarm]_vars

\* The same with a single peer.
InitLeech == InitWith(PieceLength, LastPieceLength, { 1 },
                      Script(SwarmKinds, MaxPeerMsgs, MaxPeerMsgs))

SpecLeech == InitLeech /\ [][NextSwarm]_vars

\* A single peer that may also announce pieces with HAVE.
AdvertKinds == SwarmKinds \cup { "Have" }

InitAdvert == InitWith(PieceLength, LastPieceLength, { 1 },
                       Script(AdvertKinds, MaxPeerMsgs, MaxPeerMsgs))

NextAdvert == NextSwarm \/ \E a \in Addrs : Handler_Have(a)

SpecAdvert == InitAdvert /\ [][NextAdvert]_vars

\* A single peer, with the statistics and progress timers of the manager and of
\* the engine, and Pause, Resume and Stop.
NextStats ==
    \/ NextSwarm
    \/ Mgr_UpdateStats \/ Mgr_PauseResume \/ Mgr_Cancelled \/ Mgr_Cleanup
    \/ Engine_UpdateStats \/ Engine_SaveProgress
    \/ Engine_Pause \/ Engine_Resume \/ Engine_Stop

SpecStats == InitLeech /\ [][NextStats]_vars

\* Two addresses that share one peer's messages, so that the second connection
\* can be made at any point of the first one's download; with the progress
\* timer, Pause, Resume and Stop.
InitSnapshot == InitWith(PieceLength, LastPieceLength, Addrs,
                         Script(SwarmKinds, MaxPeerMsgs, MaxPeerMsgs))

NextSnapshot ==
    \/ NextSwarm
    \/ Mgr_PauseResume \/ Mgr_Cancelled \/ Mgr_Cleanup
    \/ Engine_SaveProgress
    \/ Engine_Pause \/ Engine_Resume \/ Engine_Stop

SpecSnapshot == InitSnapshot /\ [][NextSnapshot]_vars

\* A single peer that may also send frames with an id we do not know.
WireKinds == SwarmKinds \cup { "Unknown" }

InitWire == InitWith(PieceLength, LastPieceLength, { 1 },
                     Script(WireKinds, MaxPeerMsgs, MaxPeerMsgs))

NextWire == NextSwarm \/ \E a \in Addrs : Handler_RecvUnknown(a)

SpecWire == InitWire /\ [][NextWire]_vars

\* the engine alone in front of its commands and timers, for a .torrent descriptor
\* and for descriptors without metadata (Metainfo::from_magnet gives 0 and 0)
Descriptors ==
    { TorrentInfo(NumPieces, PieceLength, LastPieceLength),
      [ piece_count |-> 0, total_size |-> 0 ],
      [ piece_count |-> NumPieces, total_size |-> 0 ],
      [ piece_count |-> 0, total_size |-> PieceLength ] }

InitEngine ==
    \E info \in Descriptors :
        InitFor(info, PieceLength, LastPieceLength, { 1 },
                Script(SwarmKinds, MaxPeerMsgs, MaxPeerMsgs))

NextEngine ==
    \/ NextSwarm
    \/ Mgr_PauseResume \/ Mgr_Cancelled \/ Mgr_Cleanup
    \/ Engine_StartNoMetadata \/ Engine_PauseIdle \/ Engine_TrackerTick
    \/ Engine_UpdateStats \/ Engine_SaveProgress
    \/ Engine_Pause \/ Engine_Resume \/ Engine_Stop

SpecEngine == InitEngine /\ [][NextEngine]_vars

\* One peer that downloads from us what it has just uploaded to us, and may
\* lose interest again.
UploadKinds == { "Bitfield", "Unchoke", "Piece", "Interested", "NotInterested", "Request" }

InitUpload == InitWith(PieceLength, LastPieceLength, { 1 },
                       Script(UploadKinds, MaxPeerMsgs + 2, MaxPeerMsgs + 2))

NextUpload ==
    \/ \E a \in Addrs : DownloadStep(a) \/ Handler_Interested(a) \/ UploadStep(a)
    \/ Mgr_AddPeer
    \/ Mgr_ChokingTick \/ Mgr_ChokingStep
    \/ Engine_Start

SpecUpload == InitUpload /\ [][NextUpload]_vars

\* The piece manager on its own: any sequence of its public operations, with any
\* arguments, as its callers and its unit tests may issue them.
restVars == << diskVars, tableVars, pc, localVars, mgrVars, engineVars, peerVars, sent_now,
              optimistic, cancel_due, metaVars >>

PM_SelectNextPiece ==
    /\ \E peer_id \in Addrs, peer_bitfield \in SUBSET Pieces :
         \E piece_index \in select_next_choices(pm, peer_bitfield) :
           pm' = select_next_piece(pm, peer_id, piece_index)
    /\ UNCHANGED << verify_ok, verify_err, rehashed, restVars >>

PM_WriteBlock ==
    /\ \E block \in AllBlocks(pm), content \in { "good", "bad" } :
         pm' = write_block(pm, block, block.length, content).pm
    /\ UNCHANGED << verify_ok, verify_err, rehashed, restVars >>

PM_VerifyPiece ==
    /\ \E piece_index \in Pieces :
         LET r == verify_piece(pm, piece_index)
         IN /\ pm' = r.pm
            /\ verify_ok' = IF r.ok THEN [ verify_ok EXCEPT ![piece_index] = @ + 1 ]
                            ELSE verify_ok
            /\ rehashed' = IF r.hashed /\ piece_index \in pm.our_bitfield
                           THEN rehashed \cup {piece_index} ELSE rehashed
            /\ verify_err' = IF r.hashed /\ ~ r.ok
                             THEN verify_err \cup {piece_index} ELSE verify_err
    /\ UNCHANGED restVars

PM_CancelPiece ==
    /\ \E piece_index \in Pieces : pm' = cancel_piece(pm, piece_index)
    /\ UNCHANGED << verify_ok, verify_err, rehashed, restVars >>

PM_SetStrategy ==
    /\ \E strategy \in { "RarestFirst", "Sequential", "Random", "Endgame" } :
         pm' = [ pm EXCEPT !.strategy = strategy ]
    /\ UNCHANGED << verify_ok, verify_err, rehashed, restVars >>

InitPM == InitWith(PieceLength, LastPieceLength, {}, Script({}, 0, 0))

NextPM ==
    \/ PM_SelectNextPiece \/ PM_WriteBlock \/ PM_VerifyPiece
    \/ PM_CancelPiece \/ PM_SetStrategy

SpecPM == InitPM /\ [][NextPM]_vars

\* A leecher and well-behaved seeders: the tracker returned one or more addresses,
\* every connect succeeds, every seeder sends BITFIELD and UNCHOKE and answers
\* every REQUEST with the original bytes, the disk never fails.  The torrent is
\* one of single-block pieces (a full block each, the last one half a block).
SeederMsgs == 2 + NumPieces * BlocksPerPiece

InitSeeder ==
    \E addresses \in (SUBSET Addrs) \ { {} } :
      InitWith(BLOCK_SIZE, BLOCK_SIZE \div 2, addresses,
               SeederScript(SeederMsgs, NumPeers * SeederMsgs, { "good" }))

NextSeeder ==
    \/ \E a \in Addrs : DownloadStep(a)
    \/ Mgr_AddPeer
    \/ Mgr_KeepAliveTick \/ Mgr_KeepAliveSend
    \/ Engine_Start

\* tokio runs every task that is ready, its locks are FIFO-fair, and the seeder
\* answers (Handler_Recv is the arrival of its next message)
FairSeeder ==
    /\ \A a \in Addrs : SF_vars(DownloadStep(a))
    /\ WF_vars(Mgr_AddPeer)
    /\ WF_vars(Mgr_KeepAliveSend)
    /\ WF_vars(Engine_Start)

SpecSeeder == InitSeeder /\ [][NextSeeder]_vars /\ FairSeeder

\* One engine that runs to completion in front of its user and its timers: a
\* torrent of single-block pieces, one peer that may send anything a download
\* needs, the user pausing, resuming and stopping at will.  The timers fire and
\* the peer manager's loop runs; the user's commands are under no obligation.
InitComplete ==
    InitWith(BLOCK_SIZE, BLOCK_SIZE \div 2, { 1 },
             Script(SwarmKinds, MaxPeerMsgs + 1, MaxPeerMsgs + 1))

NextComplete ==
    \/ NextSwarm
    \/ Mgr_PauseResume \/ Mgr_Cancelled \/ Mgr_Cleanup
    \/ Engine_UpdateStats \/ Engine_TrackerTick \/ Clock_Tick
    \/ Engine_Pause \/ Engine_Resume \/ Engine_Stop

FairComplete ==
    /\ WF_vars(Engine_UpdateStats)
    /\ WF_vars(Mgr_AddPeer)
    /\ WF_vars(Mgr_PauseResume)

SpecComplete == InitComplete /\ [][NextComplete]_vars /\ FairComplete

\* The engine in front of its trackers: a .torrent descriptor with any primary
\* URL and an announce-list of two tiers, trackers that answer or fail and change
\* between rounds.  No peers are returned.
Tiers == UNION { [ 1 .. n -> TrackerUrls ] : n \in 0 .. MaxTierLen }

InitTracker ==
    \E announce \in TrackerUrls, tier1 \in Tiers, tier2 \in Tiers :
        InitTracked(TorrentInfo(NumPieces, PieceLength, LastPieceLength),
                    [ announce |-> announce, announce_list |-> << tier1, tier2 >> ],
                    PieceLength, LastPieceLength, {}, Script({}, 0, 0))

NextTracker == Engine_Start \/ Engine_TrackerTick \/ Tracker_Change

SpecTracker == InitTracker /\ [][NextTracker]_vars

\* A leecher whose peer may leave REQUESTs unanswered for longer than
\* REQUEST_TIMEOUT.  The manager's tick fires and every session task runs when
\* it can; the remote peer is under no obligation to send anything.
LocalStep(a) == pc[a] # "recv" /\ DownloadStep(a)

NextTimeout ==
    \/ NextSwarm
    \/ Mgr_UpdateStats
    \/ \E a \in Addrs : Time_Passes(a)

FairTimeout ==
    /\ WF_vars(Mgr_UpdateStats)
    /\ WF_vars(Mgr_AddPeer)
    /\ \A a \in Addrs : WF_vars(LocalStep(a))

SpecTimeout == InitLeech /\ [][NextTimeout]_vars /\ FairTimeout

\* Every address connected, the peers declare and withdraw their interest, and
\* the manager runs its choking and optimistic-unchoke timers.
ChokeKinds == { "Interested", "NotInterested" }

InitChoke == InitWith(PieceLength, LastPieceLength, Addrs,
                      Script(ChokeKinds, MaxPeerMsgs, MaxPeerMsgs))

InterestStep(a) ==
    \/ Handler_Take(a) \/ Handler_Recv(a) \/ Handler_Reinsert(a)
    \/ Handler_Interested(a)

NextChoke ==
    \/ \E a \in Addrs : InterestStep(a)
    \/ Mgr_AddPeer
    \/ Engine_Start
    \/ Mgr_ChokingTick \/ Mgr_ChokingStep
    \/ Mgr_OptimisticTick \/ Mgr_OptimisticSend

SpecChoke == InitChoke /\ [][NextChoke]_vars

\* The swarm, with the strategy commands of the engine.
NextEndgame == NextSwarm \/ Engine_SetStrategy

SpecEndgame == InitSwarm /\ [][NextEndgame]_vars

\* ------------------------------------------------------ Metainfo::from_bytes
\* Metainfo::from_bytes on the file: one more parse of the same bytes
Metainfo_from_bytes ==
    /\ from_bytes_ok(torrent_bytes)
    /\ Cardinality(info_hashes) < MaxParses
    /\ \E info_hash \in calculate_info_hash(torrent_bytes) :
         info_hashes' = info_hashes \cup { info_hash }
    /\ UNCHANGED << torrent_bytes, fileVars, unrequested, cmdVars, statsVars, removed,
                    pmVars, diskVars, tableVars, pc,
                    localVars, mgrVars, engineVars, peerVars, sent_now, optimistic,
                    cancel_due >>

\* bencode writers for the files of the model
RECURSIVE DecimalText(_)
DecimalText(n) ==
    LET digit == CHOOSE c \in Digits : DigitValue(c) = n % 10
    IN IF n < 10 THEN << digit >> ELSE DecimalText(n \div 10) \o << digit >>

EncodeBytes(bytes) == DecimalText(Len(bytes)) \o << ":" >> \o bytes

EncodeInteger(text) == << "i" >> \o text \o << "e" >>

RECURSIVE Concat(_)
Concat(parts) == IF parts = << >> THEN << >> ELSE Head(parts) \o Concat(Tail(parts))

\* entries: a sequence of << key, encoded value >>, written in that order
EncodeDictionary(entries) ==
    << "d" >> \o Concat([ i \in 1 .. Len(entries) |->
                            EncodeBytes(entries[i][1]) \o entries[i][2] ]) \o << "e" >>

\* the decimal texts a file may carry for the length of its single file
LengthTexts == { << "7" >>, << "0", "7" >> }

\* single-file .torrent files: the keys of the info dictionary in any order, the
\* info dictionary before or after the announce URL
InfoDictionaries ==
    { EncodeDictionary([ i \in 1 .. 4 |->
          CASE order[i] = 1 -> << B_length, EncodeInteger(length) >>
            [] order[i] = 2 -> << B_name, EncodeBytes(<< "f" >>) >>
            [] order[i] = 3 -> << B_piece_length, EncodeInteger(<< "4" >>) >>
            [] order[i] = 4 -> << B_pieces, EncodeBytes(<< >>) >> ])
      : order \in OrdersOf(1 .. 4), length \in LengthTexts }

TorrentFiles ==
    UNION { { EncodeDictionary(<< << B_announce, EncodeBytes(<< "t" >>) >>, << B_info, info >> >>),
              EncodeDictionary(<< << B_info, info >>, << B_announce, EncodeBytes(<< "t" >>) >> >>) }
            : info \in InfoDictionaries }

InitMetainfo ==
    \E data \in TorrentFiles :
       InitLoaded(data, TorrentInfo(0, 4, 0), PrimaryOnly, 4, 0, {}, Script({}, 0, 0))

NextMetainfo == Metainfo_from_bytes

SpecMetainfo == InitMetainfo /\ [][NextMetainfo]_vars

\* The piece manager with peers announcing their pieces, so that the pieces
\* differ in availability when one is selected.
PM_AddPeer ==
    /\ \E peer_id \in Addrs \ DOMAIN pm.peer_requests, peer_bitfield \in SUBSET Pieces :
         pm' = add_peer(pm, peer_id, peer_bitfield)
    /\ UNCHANGED << verify_ok, verify_err, rehashed, restVars >>

NextSelect == NextPM \/ PM_AddPeer

SpecSelect == InitPM /\ [][NextSelect]_vars

\* The piece manager, with write_block called for any block description a caller
\* can build: any offset on a half-block grid, a full or a half block of data.
BlockInputs ==
    { BlockInfo(p, o * (BLOCK_SIZE \div 2), l) :
        p \in Pieces, o \in 0 .. (2 * BlocksPerPiece),
        l \in { BLOCK_SIZE \div 2, BLOCK_SIZE } }

DataLengths == { BLOCK_SIZE \div 2, BLOCK_SIZE }

PM_WriteAnyBlock ==
    /\ \E block \in BlockInputs, data_len \in DataLengths, content \in { "good", "bad" } :
         pm' = write_block(pm, block, data_len, content).pm
    /\ UNCHANGED << verify_ok, verify_err, rehashed, restVars >>

NextBlocks == NextPM \/ PM_WriteAnyBlock

SpecBlocks == InitPM /\ [][NextBlocks]_vars

\* -------------------------------------------------------------- DiskManager
\* the size of the torrent: the end of its last file
TotalSize ==
    IF files = << >> THEN 0 ELSE files[Len(files)].offset + files[Len(files)].length

\* get_files_for_range for a byte range inside the torrent (write_piece and
\* read_piece call it with the range of a piece)
Disk_GetFilesForRange ==
    /\ \E offset \in 0 .. TotalSize :
         \E size \in 0 .. (TotalSize - offset) :
            last_range' = << [ offset |-> offset, size |-> size,
                               result |-> get_files_for_range(files, offset, size) ] >>
    /\ UNCHANGED << files, torrent_bytes, info_hashes, unrequested, cmdVars, statsVars,
                    removed,
                    pmVars, diskVars,
                    tableVars, pc, localVars, mgrVars, engineVars, peerVars, sent_now,
                    optimistic, cancel_due >>

\* multi-file torrents: up to MaxFiles files of up to MaxFileLen bytes, pieces of
\* two bytes
FileLengths == UNION { [ 1 .. n -> 0 .. MaxFileLen ] : n \in 1 .. MaxFiles }

RECURSIVE SumSeq(_)
SumSeq(s) == IF s = << >> THEN 0 ELSE Head(s) + SumSeq(Tail(s))

InitFiles ==
    \E lengths \in FileLengths :
       LET total == SumSeq(lengths)
           piece_count == (total + 1) \div 2
           last == IF total = 0 THEN 0 ELSE total - (piece_count - 1) * 2
       IN InitDisk(lengths, << >>, TorrentInfo(piece_count, 2, last), PrimaryOnly,
                   2, last, {}, Script({}, 0, 0))

NextFiles == Disk_GetFilesForRange

SpecFiles == InitFiles /\ [][NextFiles]_vars

\* -------------------------------------------------------- unrequested PIECEs
\* One peer that also sends PIECEs we never asked it for.
InitUnrequested == InitWith(PieceLength, LastPieceLength, { 1 },
                            Script(SwarmKinds \cup { "Unrequested" }, MaxPeerMsgs,
                                   MaxPeerMsgs))

SpecUnrequested == InitUnrequested /\ [][NextSwarm]_vars

\* ------------------------------------------------ commands/torrent.rs, lib.rs
\* start_torrent: send Start, spawn the task that takes the engine's write lock
\* and runs the loop, store its handle
Cmd_Start ==
    /\ run_task = "none"
    /\ engine_cmds' = Append(engine_cmds, "Start")
    /\ run_task' = "spawned"
    /\ sent_now' = {}
    /\ UNCHANGED << calls, quietVars, pmVars, diskVars, tableVars, pc, localVars,
                    mgrVars, engineVars, peerVars, optimistic, cancel_due >>

\* the spawned task: `engine_arc.write().await`, then `engine.run().await` with
\* the guard alive until run returns
Run_Acquire ==
    /\ run_task = "spawned"
    /\ run_task' = "running"
    /\ sent_now' = {}
    /\ UNCHANGED << engine_cmds, calls, quietVars, pmVars, diskVars,
                    tableVars, pc, localVars, mgrVars, engineVars, peerVars, optimistic,
                    cancel_due >>

\* pause_torrent, remove_torrent_internal or the shutdown task is called for the
\* started torrent and reaches `engine_arc.read().await`
Cmd_Call(c) ==
    /\ calls[c] = "idle"
    /\ run_task \in { "spawned", "running" }
    /\ calls' = [ calls EXCEPT ![c] = "waiting" ]
    /\ sent_now' = {}
    /\ UNCHANGED << run_task, engine_cmds, quietVars, pmVars, diskVars,
                    tableVars, pc, localVars, mgrVars, engineVars, peerVars, optimistic,
                    cancel_due >>

\* the read lock is granted (nobody holds the write lock): pause sends Pause;
\* remove and shutdown cancel the token and send Stop; the guard is dropped and
\* the call runs to its end.  remove then aborts the stored task, which ends a
\* task still waiting for the write lock
Cmd_Send(c) ==
    /\ calls[c] = "waiting"
    /\ run_task # "running"
    /\ engine_cmds' = Append(engine_cmds, IF c = "pause" THEN "Pause" ELSE "Stop")
    /\ cancelled' = (cancelled \/ c # "pause")
    /\ run_task' = IF c = "remove" /\ run_task = "spawned" THEN "finished" ELSE run_task
    /\ calls' = [ calls EXCEPT ![c] = "returned" ]
    /\ sent_now' = {}
    /\ UNCHANGED << quietVars, pmVars, diskVars, tableVars, pc, localVars, mgrVars,
                    engine_state, engine_running, peer_manager_tx, peer_addresses,
                    engine_stats, snapshot, metainfo, effects, first_starts, trackerVars,
                    peerVars, optimistic, cancel_due >>

\* A torrent added and not yet started, no peers; of the run loop's timer
\* branches the tracker tick stands for all, none takes or releases the engine lock.
InitCommands ==
    InitLayer("none", << TorrentInfo(NumPieces, PieceLength, LastPieceLength).total_size >>,
              << >>, TorrentInfo(NumPieces, PieceLength, LastPieceLength), PrimaryOnly,
              PieceLength, LastPieceLength, {}, Script({}, 0, 0))

NextCommands ==
    \/ Cmd_Start
    \/ Run_Acquire
    \/ \E c \in CallKinds : Cmd_Call(c)
    \/ \E c \in CallKinds : Cmd_Send(c)
    \/ Engine_Start \/ Engine_Pause \/ Engine_Stop \/ Engine_TrackerTick
    \/ Mgr_PauseResume

SpecCommands == InitCommands /\ [][NextCommands]_vars

\* the scheduler runs every task that can run: the spawned task, the run loop's
\* branches, the calls whose lock is granted, the manager's loop
FairCommands ==
    /\ SpecCommands
    /\ WF_vars(Run_Acquire)
    /\ \A c \in CallKinds : WF_vars(Cmd_Send(c))
    /\ WF_vars(Engine_Start) /\ WF_vars(Engine_Pause) /\ WF_vars(Engine_Stop)
    /\ WF_vars(Engine_TrackerTick) /\ WF_vars(Mgr_PauseResume)

\* ------------------------------------- update_stats and the manager's tick
\* TorrentEngine::update_stats with a peer manager, its first lines: take
\* stats.write() and piece_manager.read(); the read guard is granted behind a
\* writer that is already queued
Engine_StatsLock ==
    /\ engine_running
    /\ peer_manager_tx
    /\ engine_pc = "idle"
    /\ PmLockFree
    /\ mgr_pc # "tick_pm"
    /\ engine_pc' = "stats_locked"
    /\ sent_now' = {}
    /\ UNCHANGED << stats_rx, torrent_bytes, info_hashes, fileVars, unrequested, cmdVars, removed,
                    pmVars, diskVars, tableVars, pc, localVars, mgrVars, engineVars,
                    peerVars, optimistic, cancel_due >>

\* update_stats after `self.state.read().await`: send GetStats and wait for the
\* reply, both guards alive
Engine_StatsSend ==
    /\ engine_pc = "stats_locked"
    /\ Len(command_rx) < MaxQueue
    /\ command_rx' = Append(command_rx, Cmd("GetStats"))
    /\ engine_pc' = "await_stats"
    /\ sent_now' = {}
    /\ UNCHANGED << stats_rx, torrent_bytes, info_hashes, fileVars, unrequested, cmdVars, removed,
                    pmVars, diskVars, tableVars, pc, localVars, mgr_pc, mgr_iter, mgr_arg,
                    paused, mgr_stats, engineVars, peerVars, optimistic, cancel_due >>

\* PeerManager::run, PeerManagerCommand::GetStats(tx): answer from the select loop
Mgr_GetStats ==
    /\ MgrSelect
    /\ command_rx # << >>
    /\ Head(command_rx).cmd = "GetStats"
    /\ command_rx' = Tail(command_rx)
    /\ stats_rx' = << mgr_stats >>
    /\ sent_now' = {}
    /\ UNCHANGED << engine_pc, torrent_bytes, info_hashes, fileVars, unrequested, cmdVars, removed,
                    pmVars, diskVars, tableVars, pc, localVars, mgr_pc, mgr_iter, mgr_arg,
                    paused, mgr_stats, engineVars, peerVars, optimistic, cancel_due >>

\* update_stats after rx.await: copy the reply, look for completion, drop the guards
Engine_StatsEnd ==
    /\ engine_pc = "await_stats"
    /\ stats_rx # << >>
    /\ engine_stats' = stats_rx[1]
    /\ stats_rx' = << >>
    /\ engine_pc' = "idle"
    /\ engine_state' = IF is_complete(pm) /\ engine_state = "Downloading"
                       THEN "Seeding" ELSE engine_state
    /\ completed_at' = IF is_complete(pm)
                       THEN stamp_completed_at(completed_at, now) ELSE completed_at
    /\ sent_now' = {}
    /\ UNCHANGED << torrent_bytes, info_hashes, fileVars, unrequested, cmdVars, removed,
                    pmVars, diskVars, tableVars, pc, localVars, mgrVars, engine_running,
                    peer_manager_tx, peer_addresses, cancelled, snapshot, peerVars,
                    metainfo, effects, first_starts, now, announces, announceVars,
                    optimistic, cancel_due >>

\* tick_interval tick, step 1: the branch is taken; handle_pending_requests (unless
\* paused) takes the table write lock and, for a timed-out request, goes on to
\* piece_manager.write().await; with nothing timed out the tick ends with
\* PeerManager::update_stats
Mgr_TickBegin ==
    /\ MgrTimerReady
    /\ TableLockFree
    /\ IF ~ paused /\ TimedOutInTable # {}
       THEN mgr_pc' = "tick_pm" /\ UNCHANGED mgr_stats
       ELSE /\ mgr_stats' = SumOver([ a \in DOMAIN sessions |-> sessions[a].downloaded_bytes ],
                                    DOMAIN sessions)
            /\ UNCHANGED mgr_pc
    /\ sent_now' = {}
    /\ UNCHANGED << pmVars, diskVars, tableVars, pc, localVars, mgr_iter, mgr_arg, paused,
                    command_rx, engineVars, peerVars, optimistic, cancel_due, metaVars >>

\* tick_interval tick, step 2: the piece-manager write lock is granted; the
\* timed-out requests are dropped and marked failed, then update_stats
Mgr_TickPm ==
    /\ mgr_pc = "tick_pm"
    /\ PmLockFree
    /\ sessions' = [ a \in DOMAIN sessions |-> drop_timed_out(sessions[a]) ]
    /\ pm' = mark_blocks_failed(pm, TimedOutInTable)
    /\ mgr_stats' = SumOver([ a \in DOMAIN sessions |-> sessions[a].downloaded_bytes ],
                            DOMAIN sessions)
    /\ mgr_pc' = "select"
    /\ sent_now' = {}
    /\ UNCHANGED << verify_ok, verify_err, rehashed, diskVars, session_local, pc, localVars,
                    mgr_iter, mgr_arg, paused, command_rx, engineVars, peerVars, optimistic,
                    cancel_due, metaVars >>

\* A leecher whose peer may leave REQUESTs unanswered, the engine's stats timer
\* and the manager's tick.
NextStatsTick ==
    \/ NextSwarm
    \/ \E a \in Addrs : Time_Passes(a)
    \/ Engine_StatsLock \/ Engine_StatsSend \/ Mgr_GetStats \/ Engine_StatsEnd
    \/ Mgr_TickBegin \/ Mgr_TickPm

SpecStatsTick == InitLeech /\ [][NextStatsTick]_vars

\* ------------------------------------------------------------- RemovePeer
\* a holder of PeerManager::command_sender sends RemovePeer(addr), once per address
Client_RemovePeer(addr) ==
    /\ peer_manager_tx
    /\ Len(command_rx) < MaxQueue
    /\ addr \notin removed
    /\ \A i \in 1 .. Len(command_rx) : command_rx[i] # [ cmd |-> "RemovePeer", addr |-> addr ]
    /\ command_rx' = Append(command_rx, [ cmd |-> "RemovePeer", addr |-> addr ])
    /\ sent_now' = {}
    /\ UNCHANGED << pmVars, diskVars, tableVars, pc, localVars, mgr_pc, mgr_iter, mgr_arg,
                    paused, mgr_stats, engineVars, peerVars, optimistic, cancel_due,
                    metaVars >>

\* PeerManager::run, PeerManagerCommand::RemovePeer(addr):
\* self.sessions.write().await.remove(&addr)
Mgr_RemovePeer ==
    /\ MgrSelect
    /\ command_rx # << >>
    /\ Head(command_rx).cmd = "RemovePeer"
    /\ TableLockFree
    /\ sessions' = MapRemove(sessions, Head(command_rx).addr)
    /\ removed' = removed \cup { Head(command_rx).addr }
    /\ command_rx' = Tail(command_rx)
    /\ sent_now' = {}
    /\ UNCHANGED << session_local, pmVars, diskVars, pc, localVars, mgr_pc, mgr_iter,
                    mgr_arg, paused, mgr_stats, engineVars, peerVars, optimistic,
                    cancel_due, torrent_bytes, info_hashes, fileVars, unrequested,
                    statsVars, cmdVars >>

\* One peer; the engine queues its AddPeer at the start, so no AddPeer follows a
\* RemovePeer.
NextRemove ==
    \/ NextSwarm
    \/ \E addr \in Addrs : Client_RemovePeer(addr)
    \/ Mgr_RemovePeer

SpecRemove == InitLeech /\ [][NextRemove]_vars

\* ===================================================================== claims
OnDisk(p) == Sha1(disk[p]) = pm.piece_hashes[p]

\* C1: whenever the bit of piece p is set in our bitfield, the verified bytes of p
\* are on disk (so that a REQUEST for p can be served from storage).
C1_BitImpliesOnDisk == \A p \in pm.our_bitfield : OnDisk(p)

\* a session task is about to verify a complete buffer whose digest is wrong
Mismatch(a) ==
    /\ pc[a] = "verify"
    /\ msg[a].index \in DOMAIN pm.in_progress
    /\ PieceState_is_complete(pm.in_progress[msg[a].index])
    /\ Sha1(pm.in_progress[msg[a].index].data) # pm.piece_hashes[msg[a].index]

C2_MismatchStep ==
    \A a \in Addrs :
      (Mismatch(a) /\ pc'[a] # "verify") =>
        /\ pc'[a] = "dead"
        /\ msg[a].index \notin pm'.our_bitfield
        /\ disk' = disk
        /\ disk_writes' = disk_writes

\* a piece that has only ever failed its digest check: bit clear, nothing written
C2_RejectedState ==
    \A p \in verify_err :
      verify_ok[p] = 0 =>
        p \notin pm.our_bitfield /\ disk_writes[p] = 0 /\ disk[p] = Disk_allocated(pm)[p]

\* C2: when the digest of a complete piece buffer differs from the descriptor's
\* digest, verification returns an error (the task ends with it), the bit of the
\* piece stays clear and the piece is not written to disk.
C2_HashMismatchRejected == [] C2_RejectedState /\ [][C2_MismatchStep]_vars

C2_Witness ==
    \E p \in verify_err, a \in Addrs :
      pc[a] = "dead" /\ verify_ok[p] = 0 /\ p \in DOMAIN pm.in_progress

\* C3: under any interleaving of session tasks that deliver the same piece, the
\* piece is verified successfully at most once, written to disk at most once, and
\* its digest is never computed again once it is Verified.
C3_AtMostOnce ==
    \A p \in Pieces : verify_ok[p] <= 1 /\ disk_writes[p] <= 1 /\ p \notin rehashed

\* two tasks completed the same piece: one verified and wrote it, the other's
\* verification was refused and ended its task
C3_Witness ==
    /\ verify_err = {}
    /\ \A p \in Pieces : disk_writes[p] = verify_ok[p]
    /\ \E p \in Pieces : verify_ok[p] = 1
    /\ \E a \in Addrs : pc[a] = "dead"

InState(p, st) ==
    CASE st = "Verified"   -> p \in pm.our_bitfield
      [] st = "InProgress" -> p \in DOMAIN pm.in_progress
      [] st = "Missing"    -> p \notin pm.our_bitfield /\ p \notin DOMAIN pm.in_progress

\* C4: after any sequence of select_next_piece, write_block, verify_piece and
\* cancel_piece, every piece is in exactly one of Missing, InProgress, Verified:
\* it is never both in the in-progress map and set in the bitfield.
C4_ExactlyOneState ==
    /\ DOMAIN pm.in_progress \subseteq Pieces
    /\ \A p \in Pieces :
         Cardinality({ st \in { "Missing", "InProgress", "Verified" } : InState(p, st) }) = 1

C4_Witness ==
    \E p, q \in Pieces :
      /\ InState(p, "Verified")
      /\ InState(q, "InProgress")
      /\ pm.in_progress[q].downloaded_blocks # {}

\* C5: no task performs socket I/O while it holds the session-table lock.
C5_NoSocketIOUnderTableLock ==
    /\ \A a \in Addrs : ~ (HandlerInSocketIO(a) /\ HandlerHoldsTable(a))
    /\ ~ (MgrInSocketIO /\ MgrHoldsTable)

\* C6: after Stop the manager loop has exited and cleared the session table, and
\* the table stays empty.
C6_TableStaysEmpty == mgr_pc = "done" => DOMAIN sessions = {}

\* C7: between the processing of Pause and the processing of Resume no REQUEST is
\* written to any peer.
C7_NoRequestWhilePaused == paused => \A m \in sent_now : m.type # "Request"

\* C8: a leecher connected to a well-behaved seeder that has unchoked it
\* eventually verifies every piece.
C8_LeecherCompletes ==
    (\E a \in Addrs : Live(a) /\ ~ SessionOf(a).peer_choking) ~> is_complete(pm)

\* piece p has just been verified from the blocks another session delivered
VerifiedByOther(p, a) ==
    /\ p \in pm.our_bitfield
    /\ Live(a)
    /\ \E d \in Addrs \ {a} : pc[d] = "disk_write" /\ msg[d].index = p

\* C10: after a piece is verified locally, HAVE for it is eventually sent to every
\* session that was in the table at that time, except the one that delivered it.
C10_HaveReachesOthers ==
    \A p \in Pieces, a \in Addrs :
      VerifiedByOther(p, a) ~>
        (~ Live(a) \/ \E m \in sent_now : m.type = "Have" /\ m.to = a /\ m.piece_index = p)

\* C11: every REQUEST we send on a session is sent while that session has
\* peer_choking = FALSE and am_interested = TRUE.
C11_RequestOnlyWhenAllowed ==
    \A m \in sent_now :
      m.type = "Request" =>
        /\ Live(m.to)
        /\ ~ SessionOf(m.to).peer_choking
        /\ SessionOf(m.to).am_interested

\* the half of C11 that can_request enforces: never a REQUEST to a choking peer
C11_RequestOnlyWhenUnchoked ==
    \A m \in sent_now :
      m.type = "Request" => Live(m.to) /\ ~ SessionOf(m.to).peer_choking

\* C12: a PIECE is sent in answer to a REQUEST only if, at that moment, the
\* session has am_choking = FALSE and peer_interested = TRUE.
C12_PieceOnlyWhenAllowed ==
    \A m \in sent_now :
      m.type = "Piece" =>
        /\ Live(m.to)
        /\ ~ SessionOf(m.to).am_choking
        /\ SessionOf(m.to).peer_interested

\* the half of C12 that the Request branch checks
C12_PieceOnlyWhenUnchoking ==
    \A m \in sent_now :
      m.type = "Piece" => Live(m.to) /\ ~ SessionOf(m.to).am_choking

\* REQUEST messages sent on session a and not yet answered by a PIECE
Outstanding(a) == BagSize(outstanding[a])

\* C13: at no time does a session have more than MAX_PENDING_REQUESTS REQUESTs
\* outstanding (sent and not answered by a PIECE).
C13_AtMostFiveOutstanding == \A a \in Addrs : Outstanding(a) <= MAX_PENDING_REQUESTS

\* C14: no block is requested twice concurrently on one session: a REQUEST for
\* (piece, offset) is never sent on a session while that (piece, offset) is
\* still in the session's pending map.
C14_SendStep ==
    \A m \in sent_now' :
      m.type = "Request" =>
        m.to \in DOMAIN sessions /\ m.block \notin sessions[m.to].pending_requests

C14_NoDuplicateRequest == [][C14_SendStep]_vars

\* the bitfield recorded for the peer of session a has bit i set
PeerBit(a, i) ==
    /\ Live(a)
    /\ SessionOf(a).peer_bitfield # << >>
    /\ i \in SessionOf(a).peer_bitfield[1]

\* C15: outside Endgame, whenever a REQUEST for a block of piece i is sent to a
\* peer, the bitfield recorded for that peer has bit i set at that moment.
C15_RequestedPieceAdvertised ==
    \A m \in sent_now :
      (m.type = "Request" /\ pm.strategy # "Endgame") => PeerBit(m.to, m.block.piece_index)

\* a REQUEST goes to a peer that lacks another piece we still need
C15_Witness ==
    \E m \in sent_now :
      /\ m.type = "Request"
      /\ \E i \in Pieces : i \notin pm.our_bitfield /\ ~ PeerBit(m.to, i)

\* connected peers whose recorded bitfield advertises piece i
Advertisers(i) == { a \in Addrs : PeerBit(a, i) }

\* C16: in every reachable state the availability counter of each piece equals
\* the number of connected peers whose bitfield advertises that piece.
C16_AvailabilityMatchesPeers ==
    \A i \in Pieces : pm.piece_availability[i] = Cardinality(Advertisers(i))

\* sum of the lengths of the pieces of a bitfield
BytesOf(bitfield) == SumOver([ p \in Pieces |-> piece_len(pm, p) ], bitfield)

\* C17: the downloaded_bytes reported in the engine statistics and persisted in
\* the snapshot equals the sum of the lengths of the verified pieces and never
\* includes bytes of unverified, failed or discarded pieces.  The timers make
\* both values lag behind, so the equality is checked as its lower half: neither
\* value ever exceeds the verified bytes of the bitfield it goes with.
C17_DownloadedIsVerified ==
    /\ engine_stats <= BytesOf(pm.our_bitfield)
    /\ snapshot # << >> => snapshot[1].downloaded <= BytesOf(snapshot[1].bitfield)

\* the pieces whose digest has been checked successfully
Verified == { p \in Pieces : verify_ok[p] > 0 }

\* a BITFIELD message on the wire carries exactly the Verified pieces
C18_BitfieldMessage ==
    \A m \in sent_now : m.type = "Bitfield" => m.bitfield = Verified

\* a snapshot only ever holds Verified pieces
C18_SnapshotState == snapshot # << >> => snapshot[1].bitfield \subseteq Verified

\* a snapshot that is written holds exactly the pieces Verified at that moment
C18_SnapshotStep ==
    snapshot' # snapshot =>
      /\ snapshot'[1].bitfield = { p \in Pieces : verify_ok'[p] > 0 }
      /\ snapshot'[1].bitfield \cap DOMAIN pm'.in_progress = {}

UnknownReceived(a) == unknown_frames'[a] > unknown_frames[a]

C19_UnknownStep ==
    \A a \in Addrs :
      UnknownReceived(a) =>
        /\ pc'[a] # "dead"
        /\ Live(a)'
        /\ SessionOf(a)' = SessionOf(a)

\* C19: receiving a framed message whose id is not one of the known ids does not
\* end the session: the session stays with unchanged state and its task goes on
\* to read the next message.
C19_UnknownIdSkipped == [][C19_UnknownStep]_vars

\* C20: a descriptor with zero pieces or zero total size never has its engine
\* in Downloading or Seeding, whatever Start and Pause commands and timer ticks it
\* handles; every Start it handles ends in Error, and no files are allocated, no
\* peer manager is spawned and no tracker is announced to.
C20_MagnetDerived == metainfo.piece_count = 0 \/ metainfo.total_size = 0

C20_NoProgress ==
    C20_MagnetDerived =>
        /\ engine_state \notin { "Downloading", "Seeding" }
        /\ effects = {}
        /\ ~ peer_manager_tx
        /\ mgr_pc = "unspawned"

C20_StartStep ==
    (C20_MagnetDerived /\ first_starts' = first_starts + 1) =>
        /\ engine_state' = "Error"
        /\ effects' = {}

C21_StampStep ==
    /\ (engine_state = "Downloading" /\ engine_state' = "Seeding") => completed_at' # << >>
    /\ completed_at' # << >> => is_complete(pm')
    /\ completed_at # << >> => completed_at' = completed_at

C22_StartedStep ==
    (announces = << >> /\ announces' # << >>) => announces'[1] = "Started"

C22_CompletedStep ==
    (engine_state = "Downloading" /\ engine_state' = "Seeding")
        => announces' = Append(announces, "Completed")

C22_StoppedStep ==
    (engine_running /\ ~ engine_running') => announces' = Append(announces, "Stopped")

C22_OtherStep ==
    ( /\ announces # << >>
      /\ Len(announces') > Len(announces)
      /\ ~ (engine_state = "Downloading" /\ engine_state' = "Seeding")
      /\ engine_running' )
        => announces'[Len(announces')] = "None"

C22_AnnounceEvents ==
    [][C22_StartedStep /\ C22_CompletedStep /\ C22_StoppedStep /\ C22_OtherStep]_vars

\* the URLs of a sequence, each at its first place only
RECURSIVE Once(_)
Once(urls) ==
    IF urls = << >> THEN << >>
    ELSE LET front == Once(SubSeq(urls, 1, Len(urls) - 1))
             last == urls[Len(urls)]
         IN IF last \in Range(front) THEN front ELSE Append(front, last)

\* the primary URL, then the announce-list URLs in tier order
TierOrder == Once(<< announce_urls.announce >> \o Flatten(announce_urls.announce_list))

HttpUrl(url) == url[1] = "http" \/ url[1] = "https"

Tried == [ i \in 1 .. Len(last_round) |-> last_round[i].url ]

\* what holds of a finished round over the trackers in this order
RoundOver(order) ==
    /\ Len(Tried) <= Len(order)
    /\ Tried = SubSeq(order, 1, Len(Tried))
    /\ \A i \in 1 .. (Len(last_round) - 1) : ~ last_round[i].ok
    /\ (last_round = << >> \/ ~ last_round[Len(last_round)].ok) => Tried = order
    /\ \A i \in 1 .. Len(last_round) :
          /\ \E j \in 1 .. Len(tracker_info) : tracker_info[j].url = last_round[i].url
          /\ \A j \in 1 .. Len(tracker_info) :
                tracker_info[j].url = last_round[i].url =>
                    tracker_info[j].status = IF last_round[i].ok THEN "Working" ELSE "Error"
    /\ \A j \in 1 .. Len(tracker_info) : tracker_info[j].status # "Updating"

DiskWriteFailed ==
    \E p \in Pieces :
        /\ verify_ok[p] > disk_writes[p]
        /\ \A a \in Addrs : ~ (pc[a] = "disk_write" /\ msg[a].index = p)

C24_NoReservationStep ==
    DiskWriteFailed =>
        /\ DOMAIN pm'.in_progress \subseteq DOMAIN pm.in_progress
        /\ \A m \in sent_now' : m.type # "Request"

\* C24: if the disk write of a verified piece fails, the engine transitions to
\* Error, and from then on no piece is reserved and no REQUEST is sent.
C24_DiskFailureIsFatal ==
    /\ [] (DiskWriteFailed => engine_state = "Error")
    /\ [][C24_NoReservationStep]_vars

\* the piece is to be fetched anew: its bit is clear and no block of it is held
MissingAgain(m, p) ==
    /\ p \notin m.our_bitfield
    /\ p \in DOMAIN m.in_progress => m.in_progress[p] = PieceState_new(piece_len(m, p))

C25_MissingAgainStep ==
    \A a \in Addrs :
        (Mismatch(a) /\ pc'[a] # pc[a]) => MissingAgain(pm', msg[a].index)

C25_SurvivesStep ==
    \A a \in Addrs : (Mismatch(a) /\ pc'[a] # pc[a]) => pc'[a] # "dead"

\* C25: after a piece fails digest verification it is Missing again (to be
\* selected and requested anew, so that the download can still complete), and
\* the session of the peer that delivered the bad block is not terminated by
\* that single failure.
C25_MismatchIsSurvived == [][C25_MissingAgainStep /\ C25_SurvivesStep]_vars

\* a read on the session of a has failed: its task leaves recv_message with Err
ReadFails(a) == pc[a] = "recv" /\ pc'[a] = "dead"

\* the block can be asked of another peer: its piece is Missing, or in progress
\* with the block not yet received
Requestable(m, block) ==
    /\ block.piece_index \notin m.our_bitfield
    /\ block.piece_index \in DOMAIN m.in_progress =>
           block \in Range(get_missing_blocks(m, block.piece_index))

C26_SessionGoneStep ==
    \A a \in Addrs :
        ReadFails(a) => a \notin DOMAIN sessions' /\ a \notin DOMAIN session_local'

C26_BlocksFreedStep ==
    \A a \in Addrs :
        ReadFails(a) =>
            \A block \in session_local[a].pending_requests : Requestable(pm', block)

C26_PeerForgottenStep ==
    \A a \in Addrs : ReadFails(a) => a \notin DOMAIN pm'.peer_requests

\* C26: when a read on a session fails, the session is absent from the table
\* afterwards, the piece manager no longer tracks that peer, and every block the
\* session had outstanding is requestable from other peers.
C26_ReadErrorReleases ==
    [][C26_SessionGoneStep /\ C26_PeerForgottenStep /\ C26_BlocksFreedStep]_vars

\* C27: a request that has been pending on a session for more than 30 seconds is
\* eventually removed from that session's pending map (the block is then
\* requestable again), and the session is not disconnected because of the timeout.
TorrentBlocks ==
    AllBlocks(PieceManager_new(NumPieces, PieceLength, LastPieceLength, "RarestFirst"))

C27_TimedOutIsRemoved ==
    \A a \in Addrs : \A block \in TorrentBlocks :
        (Live(a) /\ block \in get_timed_out_requests(SessionOf(a)))
            ~> (~ Live(a) \/ block \notin SessionOf(a).pending_requests)

\* C28: immediately after each regular choking round, the peers we are not
\* choking are exactly the (at most NUM_UNCHOKED) interested peers that delivered
\* the most to us, apart from the peer holding the optimistic-unchoke slot, which
\* stays unchoked; every other peer is choked.
Interested == { a \in Addrs : Live(a) /\ SessionOf(a).peer_interested }

Unchoked == { a \in Addrs : Live(a) /\ ~ SessionOf(a).am_choking }

OptimisticSlot == { a \in Addrs : Live(a) /\ optimistic = << a >> }

\* the peers of `regular` are among `candidates`, as many as the limit allows, and
\* none of them delivered less than a candidate left out
BestUploaders(regular, candidates) ==
    /\ regular \subseteq candidates
    /\ Cardinality(regular) = Min(NUM_UNCHOKED, Cardinality(candidates))
    /\ \A a \in regular, b \in candidates \ regular :
          SessionOf(a).downloaded_bytes >= SessionOf(b).downloaded_bytes

ChokingRoundDone ==
    /\ OptimisticSlot \subseteq Unchoked
    /\ BestUploaders(Unchoked \ OptimisticSlot, Interested \ OptimisticSlot)

C28_ChokingRoundStep ==
    (mgr_pc = "ch_send" /\ mgr_pc' = "select") => ChokingRoundDone'

C28_TopUploadersUnchoked == [][C28_ChokingRoundStep]_vars

OutstandingOn(c, block) == Live(c) /\ block \in SessionOf(c).pending_requests

\* the session task has left the Piece branch it entered with the block
BranchLeft(a) == pc[a] \in { "loop", "recv", "reinsert", "dead" }

\* C29: in Endgame, when a block arrives from one peer, a CANCEL for that block
\* is sent to every other peer on which the same block is still outstanding: no
\* CANCEL is still owed for a block outstanding on the other peer once the task
\* that received the block has left its Piece branch.
C29_CancelOnArrival ==
    \A d \in cancel_due : OutstandingOn(d.to, d.block) => ~ BranchLeft(d.from)

\* the bytes of the value stored under `info` in the root dictionary of the file:
\* the walk of parse_dictionary over the root's entries, keeping the positions
RECURSIVE info_range(_, _, _)
info_range(data, pos, found) ==
    IF pos <= Len(data) /\ data[pos] # "e"
    THEN LET key == parse_value(data, pos)
             value == parse_value(data, key.pos)
         IN info_range(data, value.pos,
                       IF key.value.bytes = B_info
                       THEN SubSeq(data, key.pos, value.pos - 1) ELSE found)
    ELSE found

raw_info_bytes_in(data) == info_range(data, 2, << >>)

\* C30: the info hash of a parsed .torrent equals the SHA-1 of the exact original
\* byte range of its info dictionary, not of a re-encoding or any other derived
\* representation; parsing the same bytes always yields the same info hash.
C30_InfoHashOfRawBytes ==
    \A info_hash \in info_hashes : info_hash = Sha1(raw_info_bytes_in(torrent_bytes))

\* the pieces the peer has, that we lack and that are not pending
Selectable(m, peer_bitfield) ==
    { i \in Pieces : i \in peer_bitfield /\ i \notin m.our_bitfield
                     /\ i \notin DOMAIN m.in_progress }

\* C31: for the RarestFirst, Sequential and Random strategies, select_piece
\* returns only a piece that the peer has, that we lack and that is not pending,
\* and returns none exactly when no such piece exists; among those candidates
\* Sequential returns the lowest index and RarestFirst a piece of minimal
\* availability.
C31_SelectsWantedPiece ==
    pm.strategy \in { "RarestFirst", "Sequential", "Random" } =>
      \A peer_bitfield \in SUBSET Pieces :
         LET selected == select_next_choices(pm, peer_bitfield)
             wanted == Selectable(pm, peer_bitfield)
         IN /\ selected \subseteq wanted
            /\ selected = {} <=> wanted = {}
            /\ pm.strategy = "Sequential" =>
                 \A i \in selected, j \in wanted : i <= j
            /\ pm.strategy = "RarestFirst" =>
                 \A i \in selected, j \in wanted :
                    pm.piece_availability[i] <= pm.piece_availability[j]

\* RarestFirst with peers registered: the rarer of two wanted pieces is the one
\* selected, and it is not the lowest index
C31_Witness ==
    /\ pm.strategy = "RarestFirst"
    /\ DOMAIN pm.peer_requests # {}
    /\ \E peer_bitfield \in SUBSET Pieces :
         /\ Cardinality(Selectable(pm, peer_bitfield)) > 1
         /\ \E i \in select_next_choices(pm, peer_bitfield),
               j \in Selectable(pm, peer_bitfield) :
              j < i /\ pm.piece_availability[i] < pm.piece_availability[j]

\* every block listed by get_blocks_for_piece is recorded as received
AllBlocksReceived(m, piece_index) ==
    /\ piece_index \in DOMAIN m.in_progress
    /\ \A b \in Range(get_blocks_for_piece(m, piece_index)) :
          b.offset \in m.in_progress[piece_index].downloaded_blocks

\* the data has the length the block states and ends inside the piece
Fits(m, block, data_len) ==
    /\ block.length = data_len
    /\ block.offset + data_len <= piece_len(m, block.piece_index)

\* C32: write_block reports the piece complete if and only if all blocks of the
\* piece have been received, i.e. every block listed by get_blocks_for_piece has
\* been written into the buffer; a block that does not fit the piece (wrong
\* length, or data running past the piece end) is rejected with an error and
\* does not count toward completion.
C32_CompleteIffAllBlocks ==
    \A block \in BlockInputs, data_len \in DataLengths :
       LET r == write_block(pm, block, data_len, "good")
       IN /\ r.result = "complete" <=> (r.result # "err" /\ AllBlocksReceived(r.pm, block.piece_index))
          /\ ~ Fits(pm, block, data_len) => (r.result = "err" /\ r.pm = pm)

\* the torrent offsets of the bytes a triple stands for
ChunkBytes(chunk) ==
    { files[chunk.file].offset + chunk.offset_in_file + k : k \in 0 .. (chunk.bytes - 1) }

\* C33: for every byte range [offset, offset+size) inside the torrent,
\* get_files_for_range yields (file, offset_in_file, bytes) triples in file
\* order, each lying inside its file, whose byte counts sum to size and which
\* together cover exactly that range; a range that spans a file boundary is
\* split exactly at the boundary.
C33_RangeSplitAtFileBoundaries ==
    \A call \in Range(last_range) :
       LET result == call.result
       IN /\ \A i \in 1 .. (Len(result) - 1) : result[i].file < result[i + 1].file
          /\ \A i \in 1 .. Len(result) :
                /\ result[i].bytes >= 0
                /\ result[i].offset_in_file + result[i].bytes <= files[result[i].file].length
          /\ SumSeq([ i \in 1 .. Len(result) |-> result[i].bytes ]) = call.size
          /\ UNION { ChunkBytes(result[i]) : i \in 1 .. Len(result) }
               = call.offset .. (call.offset + call.size - 1)

\* a range that starts inside one file and ends inside a later one
C33_Witness ==
    \E call \in Range(last_range) :
       /\ Len(call.result) > 1
       /\ call.result[1].offset_in_file > 0
       /\ call.result[1].bytes > 0
       /\ call.result[Len(call.result)].bytes > 0
       /\ call.result[Len(call.result)].bytes < files[call.result[Len(call.result)].file].length

\* handler a takes up a PIECE whose block is not in its session's pending map
DropsUnrequested(a) ==
    /\ pc[a] = "handle"
    /\ msg[a].type = "Piece"
    /\ pc'[a] # "handle"
    /\ ~ ( a \in DOMAIN sessions
           /\ BlockInfo(msg[a].index, msg[a].begin, msg[a].length)
                \in sessions[a].pending_requests )

\* C34: a PIECE for a block that is not in that session's pending map is
\* ignored: it is not written into any piece buffer, it does not change the
\* session's downloaded counter, and it can neither complete nor trigger
\* verification of a piece.
C34_Step ==
    \A a \in Addrs :
       DropsUnrequested(a) =>
          /\ pm' = pm
          /\ verify_ok' = verify_ok /\ verify_err' = verify_err /\ rehashed' = rehashed
          /\ disk' = disk
          /\ sessions' = sessions
          /\ pc'[a] = "loop"
          /\ msg'[a] = NoMsg

C34_UnrequestedPieceIgnored == [][C34_Step]_vars

\* an unrequested PIECE was dropped while its piece was being downloaded
C34_Witness == \E u \in unrequested : u.active

\* call c waits for the engine lock while the run task holds it
BlockedOnRun(c) == calls[c] = "waiting" /\ run_task = "running"

\* C35: a pause, remove or shutdown request issued through the command layer
\* for a torrent whose engine run loop is active eventually delivers its
\* command to the engine and returns; it never blocks forever waiting for the
\* engine lock that the run task holds.
C35_CommandReturns ==
    \A c \in CallKinds : BlockedOnRun(c) ~> (calls[c] = "returned")

\* the engine waits for the GetStats reply with its piece-manager guard alive
EngineAwaitsStats == engine_pc = "await_stats" /\ stats_rx = << >>

\* the manager's loop is suspended at piece_manager.write().await
MgrAwaitsPm == mgr_pc = "tick_pm"

\* C36: the engine's stats tick always completes: the engine never waits for
\* the peer manager's GetStats reply while holding a piece-manager lock that
\* the peer manager loop must acquire before it can answer, so the engine and
\* the peer manager cannot deadlock on each other.
C36_NoStatsDeadlock == ~ ( EngineAwaitsStats /\ MgrAwaitsPm )

\* the handler task of a has returned
HandlerExited(a) == pc[a] = "dead"

\* PeerManager::update_stats: connected_peers counts the sessions in the table
connected_peers == Cardinality(DOMAIN sessions)

\* C37: every session present in the session table has a live handler task
\* reading from it: whenever a handler exits for any reason (receive error,
\* send failure, verification error, disk error), its session is not left in
\* the table and is not counted as a connected peer.
C37_NoSessionWithoutHandler ==
    /\ \A a \in Addrs : HandlerExited(a) => a \notin DOMAIN sessions
    /\ connected_peers = Cardinality({ a \in Addrs : a \in DOMAIN sessions /\ ~ HandlerExited(a) })

\* C38: after the manager has processed RemovePeer(addr), the session for addr
\* is absent from the table and stays absent until a later AddPeer(addr); a
\* handler that had temporarily taken the session out of the table for I/O
\* does not re-insert it afterwards.
C38_RemovedStaysAbsent == \A addr \in removed : addr \notin DOMAIN sessions

\* handler a is about to write a block of, or to verify, a piece that is
\* verified already, and takes that step
LateForVerifiedPiece(a) ==
    /\ pc[a] \in { "piece_write", "verify" }
    /\ msg[a].index \in pm.verified_pieces
    /\ pc'[a] # pc[a]

\* C39: when two sessions deliver blocks of the same piece at nearly the same
\* time and one of them gets the piece verified first, the other session is
\* not terminated: a block or completion attempt for a piece that another
\* session has just verified is dropped without ending the later session's
\* handler.
C39_Step == \A a \in Addrs : LateForVerifiedPiece(a) => ~ HandlerExited(a)'

C39_LateSessionSurvives == [][C39_Step]_vars

\* no step clears a bit of our bitfield
BitfieldGrows == pm.our_bitfield \subseteq pm'.our_bitfield

\* a piece whose bit is set is not a candidate for any peer, has no buffer in
\* the in-progress map, and no REQUEST for it is queued or written
OwnedPiecesLeftAlone ==
    /\ \A peer_bitfield \in SUBSET Pieces :
          select_next_choices(pm, peer_bitfield) \cap pm.our_bitfield = {}
    /\ DOMAIN pm.in_progress \cap pm.our_bitfield = {}
    /\ \A a \in Addrs : \A i \in 1 .. Len(rp_queue[a]) :
          rp_queue[a][i].piece_index \notin pm.our_bitfield
    /\ \A m \in sent_now : m.type = "Request" => m.block.piece_index \notin pm.our_bitfield

\* C40: our bitfield is monotone: once the bit of a piece is set it is never
\* cleared for the lifetime of the engine, and a piece whose bit is set is
\* never selected, reserved or requested again.
C40_BitfieldMonotone == [][BitfieldGrows]_vars /\ []OwnedPiecesLeftAlone

\* with a piece verified, a REQUEST for another piece is written
C40_Witness ==
    /\ pm.our_bitfield # {}
    /\ \E m \in sent_now : m.type = "Request"

====
